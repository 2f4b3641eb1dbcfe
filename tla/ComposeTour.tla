----------------------------- MODULE ComposeTour -----------------------------
(***************************************************************************)
(* The loop that composes the list of stops from the command line (tour.c, *)
(* 93-128), one action per way an iteration ends.  It shows that Compose   *)
(* of TourMessage, which Tour uses as one step, is what the loop computes, *)
(* and where the stop that no iteration wrote comes from.                  *)
(*                                                                         *)
(* An operator X_slip is X with a slip of the pen (see Tour).              *)
(***************************************************************************)
EXTENDS TourMessage

CONSTANTS
  Name,      \* the VMs
  BadName,   \* an argument that names no VM
  Junk,      \* what rt_rmsg holds before it is written: it is on the stack
  MAX_ARGS,  \* stops that fit in rt_rmsg, and the largest argc accepted
  MaxArgs    \* bound: arguments of the longest command line

ASSUME NameAssumption == BadName \notin Name /\ Junk \notin Name
ASSUME ArgsAssumption == MaxArgs \in Nat /\ MAX_ARGS \in Nat \ {0}

VARIABLES
  host,        \* this node
  args,        \* argv without the program name
  state,       \* "start", "loop", "done" or "aborted" (exit(0))
  i,           \* the argument of the next iteration
  repeats,     \* repeated stops found
  msgarg_ind,  \* slot of the last iteration
  prev,        \* prev_ip4addr
  rt_rmsg      \* the message buffer, from slot 0 on

vars == <<host, args, state, i, repeats, msgarg_ind, prev, rt_rmsg>>

Stops == <<host>> \o args

Init ==
  /\ host \in Name
  /\ \E n \in 2..MaxArgs : args \in [1..n -> Name \cup {BadName}]
  /\ state = "start"
  /\ i = 1 /\ repeats = 0 /\ msgarg_ind = 0
  /\ prev = host
  /\ rt_rmsg = [[k \in 0..(MAX_ARGS - 1) |-> Junk] EXCEPT ![0] = host]

CheckArgc_slip ==
  /\ state = "start"
  /\ state' = IF Len(args) > MAX_ARGS THEN "aborted" ELSE "loop"
  /\ UNCHANGED <<host, args, i, repeats, msgarg_ind, prev, rt_rmsg>>

\* argc counts the program's name.
CheckArgc ==
  /\ state = "start"
  /\ state' = IF Len(args) + 1 > MAX_ARGS THEN "aborted" ELSE "loop"
  /\ UNCHANGED <<host, args, i, repeats, msgarg_ind, prev, rt_rmsg>>

Iterate ==
  /\ state = "loop" /\ i <= Len(args)
  /\ msgarg_ind' = i - repeats
  /\ UNCHANGED <<host, args>>

InvalidName ==
  /\ Iterate /\ args[i] = BadName
  /\ state' = "aborted"
  /\ UNCHANGED <<i, repeats, prev, rt_rmsg>>

Repeat_slip ==
  /\ Iterate /\ args[i] # BadName /\ args[i] = prev
  /\ i' = i + 1
  /\ UNCHANGED <<state, repeats, prev, rt_rmsg>>

Repeat ==
  /\ Iterate /\ args[i] # BadName /\ args[i] = prev
  /\ repeats' = repeats + 1
  /\ i' = i + 1
  /\ UNCHANGED <<state, prev, rt_rmsg>>

Write_slip ==
  /\ Iterate /\ args[i] # BadName /\ args[i] # prev
  /\ rt_rmsg' = [rt_rmsg EXCEPT ![msgarg_ind'] = args[i]]
  /\ i' = i + 1
  /\ UNCHANGED <<state, repeats, prev>>

Write ==
  /\ Iterate /\ args[i] # BadName /\ args[i] # prev
  /\ prev' = args[i]
  /\ rt_rmsg' = [rt_rmsg EXCEPT ![msgarg_ind'] = args[i]]
  /\ i' = i + 1
  /\ UNCHANGED <<state, repeats>>

EndLoop ==
  /\ state = "loop" /\ i > Len(args)
  /\ state' = "done"
  /\ UNCHANGED <<host, args, i, repeats, msgarg_ind, prev, rt_rmsg>>

Stop == state \in {"done", "aborted"} /\ UNCHANGED vars

Next == CheckArgc \/ InvalidName \/ Repeat \/ Write \/ EndLoop \/ Stop

Spec == Init /\ [][Next]_vars

(***************************************************************************)
(* The message: rt_len is (msgarg_ind + 1) * MSGARG_LEN.                   *)
(***************************************************************************)
Message == [k \in 1..(msgarg_ind + 1) |-> rt_rmsg[k - 1]]

\* Why (this is the inductive invariant of ListsProofs): what the loop
\* knows between two iterations: the repeats so far and the
\* last stop, and every stop that is no repeat written in a slot of its own.
LoopInv ==
  state # "aborted" =>
    /\ i \in 1..(Len(args) + 1)
    /\ repeats = Cardinality({j \in Repeats(Stops) : j <= i})
    /\ msgarg_ind + 1 = Slot(Stops, i)
    /\ prev = Stops[i]
    /\ \A j \in (1..i) \ Repeats(Stops) :
         rt_rmsg[Slot(Stops, j) - 1] = Stops[j]

\* The loop computes Compose, for every command line.
ComputesCompose == state = "done" => Message = Compose(Stops, Junk)

\* The message fits in the buffer, whatever is on the command line: no slot
\* past the last one is written, and no more than the buffer is sent.
FitsBuffer == state # "aborted" => msgarg_ind < MAX_ARGS
=============================================================================
