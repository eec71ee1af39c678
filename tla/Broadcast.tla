------------------------------ MODULE Broadcast ------------------------------
(***************************************************************************)
(* What the chat promises.  One client at a time has the floor; what it    *)
(* says there goes to everybody else who listens, in the order it was      *)
(* said, before anybody says the next thing, takes a seat or loses one.    *)
(* So all hear the same in the same order, but for what is their own, from *)
(* the moment they are seated to the moment they go.                       *)
(***************************************************************************)
EXTENDS Naturals, Sequences

CONSTANT Clients

VARIABLES
    seated,    \* who has a seat
    listening, \* who of them has not gone
    floor,     \* what is being said
    at,        \* how much of it each of those who listen was sent
    stream     \* all that each client was sent

castVars == <<seated, listening, floor, at, stream>>

Quiet == floor = << >>

Init ==
    /\ seated = {} /\ listening = {}
    /\ Quiet
    /\ at = [c \in Clients |-> 0]
    /\ stream = [c \in Clients |-> << >>]

\* Who has gone before being seated does not listen.
Join(c) ==
    /\ Quiet
    /\ c \notin seated /\ stream[c] = << >>
    /\ seated' = seated \cup {c}
    /\ listening' \in {listening, listening \cup {c}}
    /\ UNCHANGED <<floor, at, stream>>

\* One thing or several; who has gone may have left something to be said.
Say(c) ==
    /\ Quiet
    /\ c \in seated
    /\ floor' # << >> /\ \A n \in 1 .. Len(floor') : floor'[n].by = c
    /\ UNCHANGED <<seated, listening, at, stream>>

Deliver(r) ==
    /\ r \in listening
    /\ at[r] < Len(floor) /\ floor[at[r] + 1].by # r
    /\ stream' = [stream EXCEPT ![r] = Append(@, floor[at[r] + 1])]
    /\ at' = [at EXCEPT ![r] = @ + 1]
    /\ UNCHANGED <<seated, listening, floor>>

\* Everybody who listens has been sent all that others have said.
Done ==
    /\ ~Quiet
    /\ \A r \in listening : \A n \in at[r] + 1 .. Len(floor) : floor[n].by = r
    /\ floor' = << >> /\ at' = [c \in Clients |-> 0]
    /\ UNCHANGED <<seated, listening, stream>>

Go(r) ==
    /\ r \in listening
    /\ listening' = listening \ {r}
    /\ at' = [at EXCEPT ![r] = 0]
    /\ UNCHANGED <<seated, floor, stream>>

Dismiss(c) ==
    /\ Quiet
    /\ c \in seated
    /\ seated' = seated \ {c} /\ listening' = listening \ {c}
    /\ UNCHANGED <<floor, at, stream>>

\* The room closes in the middle of it all, for everybody at once, only if somebody
\* has gone without being dismissed.
Close ==
    /\ ~Quiet /\ seated # listening
    /\ seated' = {} /\ listening' = {}
    /\ floor' = << >> /\ at' = [c \in Clients |-> 0]
    /\ UNCHANGED stream

Next ==
    \/ Done \/ Close
    \/ \E c \in Clients : Join(c) \/ Say(c) \/ Deliver(c) \/ Go(c) \/ Dismiss(c)

Spec == Init /\ [][Next]_castVars
=============================================================================
