--------------------------- MODULE WaitingFrames ----------------------------
(***************************************************************************)
(* The frames that wait in a connection, by their numbers: those that were *)
(* read ahead, and those in chunks [from, frames] that were not read yet.  *)
(***************************************************************************)
EXTENDS Naturals, FiniteSets, Sequences

FramesIn(socket) ==
  UNION {{socket[c].frames[i] : i \in DOMAIN socket[c].frames} : c \in DOMAIN socket}

WaitingIn(buffered, socket) == {buffered[i] : i \in DOMAIN buffered} \union FramesIn(socket)

(***************************************************************************)
(* They wait in the order of their arrival.                                *)
(***************************************************************************)
Rising(frames) == \A i, j \in DOMAIN frames : i < j => frames[i] < frames[j]

WaitInOrder(buffered, socket) ==
  /\ Rising(buffered)
  /\ \A c \in DOMAIN socket : Rising(socket[c].frames)
  /\ \A c, d \in DOMAIN socket :
       c < d => \A i \in DOMAIN socket[c].frames, j \in DOMAIN socket[d].frames :
                  socket[c].frames[i] < socket[d].frames[j]
  /\ \A i \in DOMAIN buffered, n \in FramesIn(socket) : buffered[i] < n
=============================================================================
