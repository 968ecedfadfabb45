------------------------------ MODULE RecordMap ------------------------------
(***************************************************************************)
(* What the record store promises whoever asks it for a memory: for every  *)
(* key the latest revision, or nothing.  A revision only gives way to a    *)
(* newer one, and a key is forgotten only when it is gray and no active    *)
(* record has a relation to it.  Neither a crash nor a half-done operation *)
(* shows: there is no action for them.                                     *)
(***************************************************************************)
EXTENDS Naturals

CONSTANTS Keys, MaxRev, NoKey  \* NoKey is not one of Keys

VARIABLE latest

None == [rev |-> 0, gray |-> FALSE, target |-> NoKey]
Revision == [rev: 1..MaxRev, gray: BOOLEAN, target: Keys \cup {NoKey}]

Active(k) == latest[k] # None /\ ~latest[k].gray

Init == latest = [k \in Keys |-> None]

Others(k) == \A j \in Keys \ {k} : latest'[j] = latest[j]

Put(k) ==
    /\ latest'[k] \in Revision
    /\ latest'[k].rev > latest[k].rev

Forget(k) ==
    /\ latest[k].gray
    /\ \A j \in Keys : Active(j) => latest[j].target # k
    /\ latest'[k] = None

Next ==
    /\ latest' \in [Keys -> Revision \cup {None}]
    /\ \E k \in Keys : Others(k) /\ (Put(k) \/ Forget(k))

Spec == Init /\ [][Next]_latest
=============================================================================
