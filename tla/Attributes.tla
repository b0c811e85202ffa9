------------------------------ MODULE Attributes ------------------------------
(***************************************************************************)
(* Attribute matching: platforms/temu/attr_enrich.py looks up the          *)
(* attributes of a product in attr_db.json when it is exported.  A section *)
(* of the database is a function on the keys it has.  A value is the       *)
(* sequence of its parts, which the text joins with an enumeration comma.  *)
(***************************************************************************)
EXTENDS Lists, SequencesExt

CONSTANTS
  RefPid,         \* "refPid": reference pid to pid
  NamePid,        \* "names": name to pid
  PropPid,        \* "props": name to pid, as in older databases
  PropTemplate,   \* "props": name to template
  Template,       \* "templates": <<category, pid>> to template
  DefaultTemplate,\* "defaultTemplatePid": pid to template
  ValueVid,       \* "values": <<pid, value>> to vid, NoId where an entry has none
  Excluded        \* _EXCLUDE_PROPS

NoId == "none"

TemplatesOf(pid) ==
  {Template[k] : k \in {l \in DOMAIN Template : l[2] = pid}}
    \cup {DefaultTemplate[p] : p \in DOMAIN DefaultTemplate \cap {pid}}

\* What attr_db.json is like: every pid has a default template, no id is empty,
\* and the older section agrees with the newer ones about the pids of its names.
ASSUME DatabaseAgrees ==
  /\ NoId \notin Range(Template) \cup Range(DefaultTemplate)
  /\ Range(RefPid) \cup Range(NamePid) \cup Range(PropPid) \subseteq DOMAIN DefaultTemplate
  /\ \A n \in DOMAIN PropTemplate :
       n \in DOMAIN PropPid /\ PropTemplate[n] \in TemplatesOf(PropPid[n])

Get(section, key) == IF key \in DOMAIN section THEN section[key] ELSE NoId

FirstHit(candidates) ==
  LET hits == Those(candidates, LAMBDA x : x # NoId)
  IN  IF hits = <<>> THEN NoId ELSE Head(hits)

\* _resolve_pid
resolve_pid(p) ==
  FirstHit(<<Get(RefPid, p.refPid), Get(NamePid, p.propName), Get(PropPid, p.propName)>>)

\* _resolve_template_pid.  Slip_X is X with a mistake, see TaskQueue.
Slip_resolve_template_pid(pid, p, category) == \* the name first
  FirstHit(<<Get(PropTemplate, p.propName), Get(Template, <<category, pid>>),
             Get(DefaultTemplate, pid)>>)

resolve_template_pid(pid, p, category) ==
  FirstHit(<<Get(Template, <<category, pid>>), Get(DefaultTemplate, pid),
             Get(PropTemplate, p.propName)>>)

\* The entry of the whole value, or of the first of its parts that has one: an
\* entry without an id ends the search.
resolve_vid(pid, p) ==
  LET whole == <<pid, p.propValue>>
      parts == Those([k \in DOMAIN p.propValue |-> <<pid, <<p.propValue[k]>>>>],
                     LAMBDA key : key \in DOMAIN ValueVid)
  IN  IF p.vid # NoId THEN p.vid
      ELSE IF whole \in DOMAIN ValueVid THEN ValueVid[whole]
      ELSE IF parts # <<>> THEN ValueVid[Head(parts)] ELSE NoId

enrich(p, category) ==
  LET pid == resolve_pid(p)
  IN  IF pid = NoId THEN p
      ELSE [p EXCEPT !.pid = pid, !.templatePid = resolve_template_pid(pid, p, category),
                     !.vid = resolve_vid(pid, p)]

\* enrich_product_props: what is not found stays as it was collected.
enrich_product_props(props, category) ==
  LET kept == Those(props, LAMBDA p : p.propName \notin Excluded)
  IN  [k \in DOMAIN kept |-> enrich(kept[k], category)]

-----------------------------------------------------------------------------
\* An attribute is exported as it was collected, or with ids that go together:
\* the template is one of its pid, and that of the category if it has one, and the
\* value's id was collected or is the pid's, the one of the whole value if the
\* database has it.
Paired(collected, category) ==
  \A p \in Range(enrich_product_props(collected, category)) :
    \/ p \in Range(collected)
    \/ /\ p.templatePid \in TemplatesOf(p.pid)
       /\ <<category, p.pid>> \in DOMAIN Template
            => p.templatePid = Template[<<category, p.pid>>]
       /\ p.vid \in {NoId} \cup {c.vid : c \in Range(collected)}
                    \cup {ValueVid[v] : v \in {w \in DOMAIN ValueVid : w[1] = p.pid}}
       /\ <<p.pid, p.propValue>> \in DOMAIN ValueVid
            => p.vid \in {ValueVid[<<p.pid, p.propValue>>]}
                           \cup ({c.vid : c \in Range(collected)} \ {NoId})
=============================================================================
