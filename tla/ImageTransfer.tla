---------------------------- MODULE ImageTransfer ---------------------------
(***************************************************************************)
(* What packing an image into a frame and unpacking the frame promises:    *)
(* the pixels of the image arrive one at a time, in any order, each of     *)
(* them once and unaltered, and in the end all of them have arrived.       *)
(***************************************************************************)
VARIABLES
  source,    \* function from the pixels of the image to their values
  delivered  \* its restriction to the pixels that have arrived

vars == <<source, delivered>>

Init == delivered = [p \in {} |-> source[p]]

Deliver(p) ==
  /\ p \notin DOMAIN delivered
  /\ delivered' = [q \in DOMAIN delivered \cup {p} |->
                     IF q = p THEN source[p] ELSE delivered[q]]
  /\ UNCHANGED source

Next == \E p \in DOMAIN source : Deliver(p)

Spec == Init /\ [][Next]_vars /\ WF_vars(Next)

=============================================================================
