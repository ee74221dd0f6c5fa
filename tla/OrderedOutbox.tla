---------------------------- MODULE OrderedOutbox ----------------------------
(***************************************************************************)
(* What an outbox promises the reader of the chat: messages are taken in   *)
(* under growing numbers and their chunks are shown oldest first, each     *)
(* after the ones before it; a message leaves when it has been shown whole *)
(* or is set aside (a dead letter, or dropped to make room), and only one  *)
(* that was set aside may come late.  OutboxDispatch and DirectService     *)
(* implement this.                                                         *)
(***************************************************************************)
EXTENDS Integers

VARIABLES
  known,    \* the numbers given to messages so far
  waiting,  \* the messages to be delivered, with their numbers of chunks
  aside,    \* the messages that were ever set aside
  shown     \* every <<message, chunk>> that the chat has shown

ShownWhole(i) == \A c \in 0 .. waiting[i] - 1 : <<i, c>> \in shown

New == known' \ known

Entered == DOMAIN waiting' \ DOMAIN waiting

Left == DOMAIN waiting \ DOMAIN waiting'

SameChunks == \A i \in DOMAIN waiting \cap DOMAIN waiting' : waiting'[i] = waiting[i]

Without(i) == [j \in DOMAIN waiting \ {i} |-> waiting[j]]

\* New numbers are the highest so far; a message without room is set aside, and
\* so are the oldest that wait.
TakeIn ==
  /\ known \subseteq known' /\ \A i \in known, j \in New : i < j
  /\ SameChunks
  /\ Entered \subseteq New /\ New \ Entered \subseteq aside'
  /\ \A i \in Left : ShownWhole(i) \/ i \in aside'
  /\ \A i \in Left, j \in DOMAIN waiting' : i < j
  /\ aside \subseteq aside' /\ aside' \ aside \subseteq Left \cup New
  /\ UNCHANGED shown

Show(i, c) ==
  /\ <<i, c>> \notin shown
  /\ \A b \in 0 .. c - 1 : <<i, b>> \in shown
  /\ \A j \in DOMAIN waiting : j < i => j \in aside
  /\ shown' = shown \cup {<<i, c>>}
  /\ UNCHANGED <<known, waiting, aside>>

Deliver(i) ==
  /\ ShownWhole(i)
  /\ waiting' = Without(i)
  /\ UNCHANGED <<known, aside, shown>>

SetAside(i) ==
  /\ waiting' = Without(i)
  /\ aside' = aside \cup {i}
  /\ UNCHANGED <<known, shown>>

\* Messages set aside wait again, with the numbers they had.
Return ==
  /\ SameChunks
  /\ Entered \subseteq aside
  /\ Left = {}
  /\ UNCHANGED <<known, aside, shown>>

Init == known = {} /\ DOMAIN waiting = {} /\ aside = {} /\ shown = {}

Next ==
  \/ TakeIn
  \/ Return
  \/ \E i \in DOMAIN waiting : \E c \in 0 .. waiting[i] - 1 : Show(i, c)
  \/ \E i \in DOMAIN waiting : Deliver(i) \/ SetAside(i)

Spec == Init /\ [][Next]_<<known, waiting, aside, shown>>

=============================================================================
