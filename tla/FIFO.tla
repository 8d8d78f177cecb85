-------------------------------- MODULE FIFO --------------------------------
(***************************************************************************)
(* What the users of a kernel queue rely on: objects come out in the order  *)
(* in which they were saved, each once, and nothing else ever comes out.    *)
(***************************************************************************)
EXTENDS Sequences

CONSTANTS Objects,      \* what can be queued
          Nothing       \* the NULL that is returned by an empty queue

VARIABLES queue,        \* the saved objects, oldest first
          staged,       \* the object being set up, not part of the queue yet
          taken         \* what the last removal returned

fifoVars == <<queue, staged, taken>>

FifoInit == queue = <<>> /\ staged = Nothing /\ taken = Nothing

Stage(o) == staged' = o /\ UNCHANGED <<queue, taken>>

Save == /\ staged # Nothing
        /\ queue' = Append(queue, staged)
        /\ staged' = Nothing
        /\ UNCHANGED taken

Discard == staged' = Nothing /\ UNCHANGED <<queue, taken>>

Take == /\ queue # <<>>
        /\ taken' = Head(queue)
        /\ queue' = Tail(queue)
        /\ UNCHANGED staged

TakeNothing == /\ queue = <<>>
               /\ taken' = Nothing
               /\ UNCHANGED <<queue, staged>>

Clear == queue' = <<>> /\ staged' = Nothing /\ UNCHANGED taken

FifoNext == \/ \E o \in Objects : Stage(o)
            \/ Save \/ Discard \/ Take \/ TakeNothing \/ Clear

FifoSpec == FifoInit /\ [][FifoNext]_fifoVars
=============================================================================
