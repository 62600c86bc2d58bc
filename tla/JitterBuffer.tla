---------------------------- MODULE JitterBuffer ----------------------------
(***************************************************************************)
(* What a reordering buffer promises, with neither slots nor flags: a set  *)
(* of held frames in front of the number that is expected next.            *)
(*                                                                         *)
(*   - every number is handed out in its turn, as the frame that carries   *)
(*     it when it is held, as silence only when it is not;                 *)
(*   - a held frame leaves by being handed out, or because the whole       *)
(*     window is abandoned (a flush, or a jump of the stream);             *)
(*   - only missing frames are asked for again.                            *)
(*                                                                         *)
(* RaopBuffer implements it; it is the specification a user of             *)
(* libairplay/airplay/raop_buffer.h relies on.                             *)
(***************************************************************************)
EXTENDS Integers

CONSTANTS
  Window, (* How many numbers the buffer may hold at once.                 *)
  Modulus (* The numbers are 0 .. Modulus - 1 and wrap around.             *)

VARIABLES
  expected, (* The number that is handed out next.                         *)
  held,     (* The numbers of the frames received and not handed out.      *)
  out       (* What the last call gave to its caller.                      *)

vars == <<expected, held, out>>

Number == 0 .. Modulus - 1
Plus(s, k) == (s + k) % Modulus
Ahead(s) == (s - expected) % Modulus
Result(kind, s, n) == [kind |-> kind, seqnum |-> s, count |-> n]
Nothing == Result("nothing", 0, 0)

Init ==
  /\ expected = 0
  /\ held = {}
  /\ out = Nothing

(* A packet is refused, or a call finds nothing to do.                     *)
Refuse ==
  /\ out' \in {Nothing, Result("invalid", 0, 0)}
  /\ UNCHANGED <<expected, held>>

(* A packet inside the window is kept.                                     *)
Receive(s) ==
  /\ Ahead(s) < Window
  /\ held' = held \cup {s}
  /\ out' = Nothing
  /\ UNCHANGED expected

(* A packet far ahead of the window abandons it, and so does the first     *)
(* packet after the buffer ran empty: the stream starts over from there.   *)
Restart(s) ==
  /\ held = {} \/ Ahead(s) >= Window
  /\ expected' = s
  /\ held' = {s}
  /\ out' = Nothing

Deliver ==
  /\ expected \in held
  /\ out' = Result("frame", expected, 0)
  /\ held' = held \ {expected}
  /\ expected' = Plus(expected, 1)

Skip ==
  /\ expected \notin held
  /\ out' = Result("silence", expected, 0)
  /\ expected' = Plus(expected, 1)
  /\ UNCHANGED held

(* The numbers asked for are the missing ones at the head of the window.   *)
Request(n) ==
  /\ \A k \in 0 .. n - 1 : Plus(expected, k) \notin held
  /\ out' = Result("resend", expected, n)
  /\ UNCHANGED <<expected, held>>

Flush ==
  /\ held' = {}
  /\ expected' \in Number
  /\ out' = Nothing

Next ==
  \/ Refuse
  \/ \E s \in Number : Receive(s) \/ Restart(s)
  \/ Deliver
  \/ Skip
  \/ \E n \in 1 .. Window : Request(n)
  \/ Flush

Spec == Init /\ [][Next]_vars

=============================================================================
