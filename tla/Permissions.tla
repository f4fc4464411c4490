----------------------------- MODULE Permissions ----------------------------
(***************************************************************************)
(* Permission envelopes (internal/mission/permissions.go) and the context  *)
(* package a lease is given from them (internal/store/context.go and       *)
(* buildContextPackageTx).  An envelope limits the classification, tools   *)
(* and artifacts of a task and lists views of the blackboard: a namespace, *)
(* some of its keys or, with no key named, all of them, and a mode.        *)
(***************************************************************************)
EXTENDS Naturals, FiniteSets

CONSTANTS Space, Entry,  \* blackboard namespaces and keys
          Tool, Artifact

Rank == [public |-> 0, internal |-> 1, confidential |-> 2, restricted |-> 3]

\* "" is what a caller left out; the empty key is one of the strings it may send.
View == [space : Space, keys : SUBSET (Entry \cup {""}), mode : {"", "ro", "rw"}]
Envelope == [class : DOMAIN Rank \cup {""}, tools : SUBSET Tool,
             artifacts : SUBSET Artifact, views : SUBSET View]

NoGrants == [class |-> "", tools |-> {}, artifacts |-> {}, views |-> {}]

\* NormalizePermissionEnvelope; an unknown class, mode or namespace, which it refuses,
\* is no Envelope.
Normalize(e) ==
  [e EXCEPT !.class = IF @ = "" THEN "public" ELSE @,
            !.views = {[v EXCEPT !.keys = @ \ {""}, !.mode = IF @ = "" THEN "ro" ELSE @] : v \in @}]

\* Fault: no key named is taken for no key asked for.
Covers_noKeys(p, c) ==
  /\ p.space = c.space /\ ~(p.mode = "ro" /\ c.mode = "rw")
  /\ p.keys = {} \/ c.keys \subseteq p.keys

\* boardGrantCovers.
Covers(p, c) ==
  /\ p.space = c.space /\ ~(p.mode = "ro" /\ c.mode = "rw")
  /\ p.keys = {} \/ (c.keys # {} /\ c.keys \subseteq p.keys)

\* PermissionEnvelopeSubset.
Within(parent, child) ==
  LET p == Normalize(parent)
      c == Normalize(child)
  IN /\ Rank[c.class] <= Rank[p.class]
     /\ c.tools \subseteq p.tools /\ c.artifacts \subseteq p.artifacts
     /\ \A v \in c.views : \E w \in p.views : Covers(w, v)

\* buildContextPackageTx: the entries of a board that the views select, each in the
\* widest mode that a view of its gives it.
Selected(v, board) == {x \in board : x[1] = v.space /\ (v.keys = {} \/ x[2] \in v.keys)}
BoardView(e, board) ==
  LET views == {v \in e.views : Selected(v, board) # {}}
      seen  == UNION {Selected(v, board) : v \in views}
      mode(x) == IF \E v \in views : x \in Selected(v, board) /\ v.mode = "rw" THEN "rw" ELSE "ro"
  IN {[entry |-> x, mode |-> mode(x)] : x \in seen}

\* BuildContextPackage, the parts that depend on the envelope.
Package(e, board, stored) ==
  [artifacts |-> e.artifacts \cap stored, board |-> BoardView(e, board)]

-----------------------------------------------------------------------------
\* What an envelope allows, said without views: the reference for the above.
May(e, x, mode) ==
  \E v \in Normalize(e).views : /\ v.space = x[1] /\ (v.keys = {} \/ x[2] \in v.keys)
                                /\ mode = "rw" => v.mode = "rw"
=============================================================================
