----------------------------- MODULE FrameService -----------------------------
(***************************************************************************)
(* What a FrameProcessor promises to whoever offers it frames and fetches  *)
(* processed ones, with no word of threads and queues: a frame is accepted *)
(* or refused; an accepted frame is either lost or comes out once, treated *)
(* with one of the lists of effects that were in force since it was        *)
(* accepted; and of the frames accepted under the list in force none       *)
(* overtakes another.                                                      *)
(***************************************************************************)
EXTENDS Integers, Sequences

VARIABLES
  lists,   \* every list of effects there has been; the last one is in force
  offered, \* how many frames have been offered
  waiting, \* the accepted frames that may still come out
  ready    \* the processed frames, in the order in which they came out

serviceVars == <<lists, offered, waiting, ready>>

Init == /\ Len(lists) = 1
        /\ offered = 0
        /\ waiting = {}
        /\ ready = <<>>

\* addEffect, clearEffects: another list comes into force, and frames that the
\* replaced threads were treating are lost.
Configure == /\ Len(lists') = Len(lists) + 1
             /\ SubSeq(lists', 1, Len(lists)) = lists
             /\ waiting' \subseteq waiting
             /\ UNCHANGED <<offered, ready>>

\* addFrame, accepted or refused.
Accept == /\ offered' = offered + 1
          /\ waiting' \in {waiting, waiting \cup {[id |-> offered + 1, born |-> Len(lists)]}}
          /\ UNCHANGED <<lists, ready>>

\* A frame comes out, treated with list number k.  Of the frames accepted since
\* the last edit, the first one comes out first.
Deliver(f, k) ==
  /\ ready' = Append(ready, [id |-> f.id, born |-> f.born, applied |-> lists[k]])
  /\ waiting' = waiting \ {f}
  /\ f.born = Len(lists) => \A g \in waiting : g.born = Len(lists) => f.id <= g.id
  /\ UNCHANGED <<lists, offered>>

\* Frames are lost: a queue is full, or a thread ends.
Lose == /\ waiting' \subseteq waiting
        /\ UNCHANGED <<lists, offered, ready>>

\* stop() throws away what is ready as well.
Flush == /\ waiting' \subseteq waiting
         /\ ready' = <<>>
         /\ UNCHANGED <<lists, offered>>

\* getFrame.
Fetch == /\ ready # <<>>
         /\ ready' = Tail(ready)
         /\ UNCHANGED <<lists, offered, waiting>>

Next == \/ Configure \/ Accept \/ Lose \/ Flush \/ Fetch
        \/ \E f \in waiting : \E k \in f.born .. Len(lists) : Deliver(f, k)

Spec == Init /\ [][Next]_serviceVars
=============================================================================
