----------------------------- MODULE RedisLists -----------------------------
(***************************************************************************)
(* The Redis list commands that h-mesh's custody scripts are built from.   *)
(* Redis is not part of the repository; the commands are modelled from how *)
(* core/channels.py and core/queues.py use them. The head of a list is the *)
(* first element of the sequence: RPUSH is Append, LMOVE LEFT takes Head.  *)
(***************************************************************************)
EXTENDS Integers, Sequences, SequencesExt, Functions

\* e is an element of the list.
In(s, e) == \E i \in DOMAIN s : s[i] = e

\* LREM key 1 e: remove the first occurrence of e.
LRem(s, e) == RemoveFirst(s, e)

\* LTRIM key -cap -1: keep the newest cap elements.
LTrim(s, cap) == IF Len(s) > cap THEN SubSeq(s, Len(s) - cap + 1, Len(s)) ELSE s
=============================================================================
