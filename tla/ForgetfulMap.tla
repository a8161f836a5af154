---------------------------- MODULE ForgetfulMap ----------------------------
(***************************************************************************)
(* What a cache promises (the abstract side of src/app/services/cache.py): *)
(* it may forget any key at any time, and has to at the key's deadline; it *)
(* knows a key only since that key was last put, and nothing but a put     *)
(* moves the deadline.                                                     *)
(***************************************************************************)
EXTENDS Integers

CONSTANTS CacheKeys, Values, TTL

VARIABLES last,   \* last[k]: the value last put under k, and when
          known,  \* keys that are remembered
          now     \* the time

vars == <<last, known, now>>

Nothing == [value |-> "none", at |-> 0]

Init == /\ last = [k \in CacheKeys |-> Nothing]
        /\ known = {}
        /\ now = 0

Put(k, v) == /\ last' = [last EXCEPT ![k] = [value |-> v, at |-> now]]
             /\ known' \subseteq known \cup {k}
             /\ UNCHANGED now

Forget == /\ known' \subseteq known
          /\ UNCHANGED <<last, now>>

Reset == /\ last' = [k \in CacheKeys |-> Nothing]
         /\ known' = {}
         /\ UNCHANGED now

Elapse == /\ now' = now + 1
          /\ known' = {k \in known : now' <= last[k].at + TTL}
          /\ UNCHANGED last

Next == (\E k \in CacheKeys, v \in Values : Put(k, v))
        \/ Forget \/ Reset \/ Elapse

Spec == Init /\ [][Next]_vars
=============================================================================
