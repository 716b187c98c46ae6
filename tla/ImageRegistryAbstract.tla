------------------------ MODULE ImageRegistryAbstract ------------------------
(***************************************************************************)
(* What the binary-image registry of KSDynamicLinker.c promises its       *)
(* readers (spec.md 3, 4.2, 7), with no threads and no pointers:          *)
(*                                                                         *)
(*  - list: the descriptors in the order they were published; a published *)
(*    descriptor never changes (desc) and is never removed;                *)
(*  - visible: what a traversal from the head sees, always a prefix of     *)
(*    list, which only grows, and eventually to all of list;               *)
(*  - unloaded: flags that go from false to true once, and only on         *)
(*    descriptors a traversal can see;                                     *)
(*  - Reset: the test-support reset, which empties the registry.           *)
(***************************************************************************)
EXTENDS Sequences, SequencesExt, TLC

CONSTANTS
  Ids,     \* descriptor identities
  Descs    \* descriptor contents

VARIABLES list, visible, desc, unloaded

avars == <<list, visible, desc, unloaded>>

Init ==
  /\ list = <<>>
  /\ visible = <<>>
  /\ desc = [n \in {} |-> CHOOSE d \in Descs : TRUE]
  /\ unloaded = {}

\* A new descriptor with contents d is published at the end of the list.
Insert(n, d) ==
  /\ n \in Ids \ ToSet(list)
  /\ list' = Append(list, n)
  /\ desc' = desc @@ (n :> d)
  /\ UNCHANGED <<visible, unloaded>>

\* Traversals see a longer prefix of the published list.
Reveal ==
  /\ \E k \in (Len(visible) + 1) .. Len(list) : visible' = SubSeq(list, 1, k)
  /\ UNCHANGED <<list, desc, unloaded>>

\* A visible descriptor is flagged unloaded, once.
MarkUnloaded(n) ==
  /\ n \in ToSet(visible) \ unloaded
  /\ unloaded' = unloaded \cup {n}
  /\ UNCHANGED <<list, visible, desc>>

Reset ==
  /\ list' = <<>>
  /\ visible' = <<>>
  /\ desc' = [n \in {} |-> CHOOSE d \in Descs : TRUE]
  /\ unloaded' = {}

Next ==
  \/ \E n \in Ids, d \in Descs : Insert(n, d)
  \/ Reveal
  \/ \E n \in Ids : MarkUnloaded(n)
  \/ Reset

SafetySpec == Init /\ [][Next]_avars

\* Every published descriptor eventually becomes visible.
Spec == SafetySpec /\ WF_avars(Reveal)

====
