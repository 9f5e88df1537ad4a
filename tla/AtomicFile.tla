------------------------------ MODULE AtomicFile ------------------------------
(***************************************************************************)
(* What the request store promises its users: a list of entries that is    *)
(* read and changed in one step, by appending an entry or by revising one  *)
(* once, and that never loses an entry whose writer was told it is stored. *)
(***************************************************************************)
EXTENDS Naturals, Sequences

CONSTANT Ids

VARIABLES
  content,  \* the entries, in the order they were appended
  stored    \* ids of the entries whose creation was reported as done

afVars == <<content, stored>>

Fresh(id) == [id |-> id, rev |-> 0]

Init == content = <<>> /\ stored = {}

\* Reported or not: a writer may die between the two.
Create(id) ==
  /\ \A i \in DOMAIN content : content[i].id # id
  /\ content' = Append(content, Fresh(id))
  /\ stored' \in {stored, stored \cup {id}}

Revise(i) ==
  /\ content[i].rev = 0
  /\ content' = [content EXCEPT ![i].rev = 1]
  /\ UNCHANGED stored

Next == \/ \E id \in Ids : Create(id)
        \/ \E i \in DOMAIN content : Revise(i)

Spec == Init /\ [][Next]_afVars
=============================================================================
