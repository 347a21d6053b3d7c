------------------------------ MODULE PoseFeed ------------------------------
(***************************************************************************)
(* What the lock-free pose statics promise the render thread, without the  *)
(* program order that makes the promise true.                              *)
(*                                                                         *)
(* Datagrams are numbered as they are accepted.  A tick takes, for each    *)
(* cell (the remote flag and the six pose fields), the value of some       *)
(* datagram.  The cells of one tick may come from different datagrams, but *)
(* none is older than the count of published datagrams the tick started    *)
(* from, none runs ahead of the datagram being published, and no cell ever *)
(* goes back to an older datagram than a tick before it used.              *)
(***************************************************************************)
EXTENDS Naturals

CONSTANT Cells  \* the statics one datagram is published through

VARIABLES
  published,    \* datagrams published so far: the sample-sequence counter
  started,      \* that count as the latest tick read it
  used          \* per cell, the datagram it was last taken from

feedVars == <<published, started, used>>

FeedInit ==
  /\ published = 0
  /\ started = 0
  /\ used = [c \in Cells |-> 0]

Publish ==
  /\ published' = published + 1
  /\ UNCHANGED <<started, used>>

Begin ==
  /\ started' = published
  /\ UNCHANGED <<published, used>>

Take(c) ==
  /\ \E n \in started .. published + 1 :
       /\ n >= used[c]
       /\ used' = [used EXCEPT ![c] = n]
  /\ UNCHANGED <<published, started>>

\* A reset forgets how far the reader had come; the next tick reads it anew.
Forget ==
  /\ started' = 0
  /\ UNCHANGED <<published, used>>

FeedNext == Publish \/ Begin \/ (\E c \in Cells : Take(c)) \/ Forget

FeedSpec == FeedInit /\ [][FeedNext]_feedVars

=============================================================================
