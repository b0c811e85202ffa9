-------------------------------- MODULE Images --------------------------------
(***************************************************************************)
(* The source images of a product: core/images.py downloads them at once   *)
(* and puts them back in order, services/analysis sees those that arrived, *)
(* and generation translates the numbers the model selected into images.   *)
(* An image is named by its URL.  Positions count from 1, in the code from *)
(* 0 except for the numbers of the model, which count from 1 there too.    *)
(***************************************************************************)
EXTENDS Lists, Integers, SequencesExt

CONSTANT None

\* _download_images_parallel: fetched holds [index, ok] in the order of
\* completion; a failed download leaves a gap.  Slip_X is X with a mistake, see
\* TaskQueue.
Slip_image_bytes_list(urls, fetched) == \* in the order of completion
  [k \in DOMAIN urls |-> IF fetched[k].ok THEN urls[fetched[k].index] ELSE None]

image_bytes_list(urls, fetched) ==
  [k \in DOMAIN urls |->
     IF [index |-> k, ok |-> TRUE] \in Range(fetched) THEN urls[k] ELSE None]

valid_indices(bytes) == Those([k \in DOMAIN bytes |-> k], LAMBDA k : bytes[k] # None)

\* What the model gets, and what upload_source_image_bytes_to_oss uploads.
valid_b64(bytes) == Those(bytes, LAMBDA b : b # None)

\* _validate: two or three different numbers of images the model was shown.
Selections(count) ==
  {s \in [1..2 -> 1..count] \cup [1..3 -> 1..count] : IsInjective(s)}

\* selected_ref_bytes in _generate.
Slip_selected_ref_bytes(bytes, selected) == \* numbers taken as positions
  [k \in DOMAIN selected |-> bytes[selected[k]]]

selected_ref_bytes(bytes, selected) ==
  [k \in DOMAIN selected |-> bytes[valid_indices(bytes)[selected[k]]]]
=============================================================================
