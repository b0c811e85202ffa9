----------------------------- MODULE RedisList -----------------------------
(***************************************************************************)
(* The Redis list "pipeline:queue" as a sequence.  Position 1 is the left  *)
(* end.  Producers LPUSH, consumers BRPOP the right end, a worker that is  *)
(* refused a slot RPUSHes, and a deletion LREMs every copy.  Redis is not  *)
(* part of the repository: the operators are the commands as               *)
(* mq/redis_queue.py uses them.                                            *)
(***************************************************************************)
EXTENDS Lists

LPush(list, e) == <<e>> \o list

RPush(list, e) == Append(list, e)

\* What BRPOP answers, and what it leaves, on a non-empty list.
Rightmost(list) == list[Len(list)]
ButRightmost(list) == SubSeq(list, 1, Len(list) - 1)

Elements(list) == {list[k] : k \in 1..Len(list)}

\* LREM list 0 e: every copy of e goes, the others keep their order.
LRem(list, e) == Those(list, LAMBDA x : x # e)
=============================================================================
