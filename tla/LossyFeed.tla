------------------------------- MODULE LossyFeed -------------------------------
(***************************************************************************)
(* What every bounded publisher of this system promises its subscribers,   *)
(* whatever its queue policy is: publications carry one global sequence;   *)
(* a subscriber joins at the current position and then receives some of    *)
(* the later publications, each at most once and never out of order.  It   *)
(* may miss publications (its queue is bounded), but only by skipping      *)
(* forward, so that a gap in the sequence numbers shows the loss.  Leaving *)
(* is final.                                                               *)
(***************************************************************************)
EXTENDS Naturals

CONSTANT Subs         \* identities of the subscription objects

VARIABLES published,  \* number of publications so far
          joined,     \* the subscriptions that have been opened
          left,       \* those that have been closed again
          cursor      \* position of the last publication each one received

feedVars == <<published, joined, left, cursor>>

FeedTypeOK ==
  /\ published \in Nat
  /\ joined \in SUBSET Subs
  /\ left \in SUBSET joined
  /\ cursor \in [Subs -> Nat]

FeedInit ==
  /\ published = 0
  /\ joined = {}
  /\ left = {}
  /\ cursor = [s \in Subs |-> 0]

Publish ==
  /\ published' = published + 1
  /\ UNCHANGED <<joined, left, cursor>>

Join(s) ==
  /\ s \notin joined
  /\ joined' = joined \cup {s}
  /\ cursor' = [cursor EXCEPT ![s] = published]
  /\ UNCHANGED <<published, left>>

Deliver(s) ==
  /\ s \in joined \ left
  /\ \E n \in (cursor[s] + 1) .. published : cursor' = [cursor EXCEPT ![s] = n]
  /\ UNCHANGED <<published, joined, left>>

Leave(s) ==
  /\ s \in joined \ left
  /\ left' = left \cup {s}
  /\ UNCHANGED <<published, joined, cursor>>

FeedNext ==
  \/ Publish
  \/ \E s \in Subs : Join(s) \/ Deliver(s) \/ Leave(s)

FeedSpec == FeedInit /\ [][FeedNext]_feedVars

=============================================================================
