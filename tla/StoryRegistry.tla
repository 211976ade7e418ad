----------------------------- MODULE StoryRegistry -----------------------------
(***************************************************************************)
(* What the candidate commands promise, whatever is written when and       *)
(* whatever fails: an approval registers all the new pairs of one offer at *)
(* once, each as a story of its own, or none; an offer holds only what its *)
(* source's extractor proposed, and counts as approved only when all of it *)
(* is registered.                                                          *)
(***************************************************************************)
EXTENDS Naturals

CONSTANTS Sources, Pairs, Files, Nobody

VARIABLES
    proposed,   \* source -> pairs its extractor has proposed
    offer,      \* state file -> the pairs that wait in it, and whose they are
    approved,   \* state files that are marked as approved
    stories     \* registered stories: identifier, source and pair

rvars == <<proposed, offer, approved, stories>>

Init ==
    /\ proposed = [s \in Sources |-> {}]
    /\ offer = [f \in Files |-> [source |-> Nobody, pairs |-> {}]]
    /\ approved = {}
    /\ stories = {}

Registered(s, x) == \E t \in stories : t.source = s /\ t.pair = x
Unregistered(f) == {x \in offer[f].pairs : ~Registered(offer[f].source, x)}

Propose(s, P) ==
    /\ proposed' = [proposed EXCEPT ![s] = @ \cup P]
    /\ UNCHANGED <<offer, approved, stories>>

\* A new offer takes the place of the one in its file, approved or not.
Offer(f, s, P) ==
    /\ P \subseteq proposed[s]
    /\ offer' = [offer EXCEPT ![f] = [source |-> s, pairs |-> P]]
    /\ approved' = approved \ {f}
    /\ UNCHANGED <<proposed, stories>>

\* One story for each pair that is new, numbered onwards from those there are.
Approve(f) ==
    /\ stories \subseteq stories'
    /\ LET added == stories' \ stories
       IN  /\ \A t \in added :
                /\ t.source = offer[f].source /\ t.pair \in Unregistered(f)
                /\ \A u \in stories : u.id < t.id
                /\ \A u \in added : u.id = t.id \/ u.pair = t.pair => u = t
                /\ t.id = 1 \/ \E u \in stories' : u.id = t.id - 1
           /\ \A x \in Unregistered(f) : \E t \in added : t.pair = x
    /\ UNCHANGED <<proposed, offer, approved>>

MarkApproved(f) ==
    /\ Unregistered(f) = {}
    /\ approved' = approved \cup {f}
    /\ UNCHANGED <<proposed, offer, stories>>

Next ==
    \/ \E s \in Sources, P \in SUBSET Pairs : Propose(s, P)
    \/ \E f \in Files, s \in Sources, P \in SUBSET Pairs : Offer(f, s, P)
    \/ \E f \in Files : Approve(f) \/ MarkApproved(f)

Spec == Init /\ [][Next]_rvars
================================================================================
