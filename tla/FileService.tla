----------------------------- MODULE FileService -----------------------------
(***************************************************************************)
(* What lab2/02_client_server promises.  A client asks once.  Its answer   *)
(* is its file, chunk by chunk, and then one verdict: the end, when all    *)
(* was sent, or an error, if the file has one.  The client takes the       *)
(* chunks in order and hears the verdict last.  A request may be lost, but *)
(* not once any of its answer was sent; only the answer of a brittle one   *)
(* may break off anywhere.                                                 *)
(***************************************************************************)
EXTENDS Naturals, Sequences

CONSTANTS
    Clients,
    FileLen, \* chunks of each client's file
    Faulty,  \* the clients whose file may give an error
    Brittle  \* the clients whose answer may break off

VARIABLES
    asked,   \* the clients that have asked
    owed,    \* those of them whose answer is not closed, nor their request lost
    sent,    \* how many chunks each was sent
    verdict, \* what each answer was closed with: none, end, error
    got,     \* the chunks each has taken
    told     \* the verdict each has heard

serviceVars == <<asked, owed, sent, verdict, got, told>>

Init ==
    /\ asked = {} /\ owed = {}
    /\ sent = [c \in Clients |-> 0]
    /\ verdict = [c \in Clients |-> "none"]
    /\ got = [c \in Clients |-> << >>]
    /\ told = [c \in Clients |-> "none"]

Ask(c) ==
    /\ c \notin asked
    /\ asked' = asked \cup {c} /\ owed' = owed \cup {c}
    /\ UNCHANGED <<sent, verdict, got, told>>

Lose(c) ==
    /\ c \in owed
    /\ sent[c] = 0
    /\ owed' = owed \ {c}
    /\ UNCHANGED <<asked, sent, verdict, got, told>>

Break(c) ==
    /\ c \in Brittle \cap owed
    /\ owed' = owed \ {c}
    /\ UNCHANGED <<asked, sent, verdict, got, told>>

Send(c) ==
    /\ c \in owed
    /\ sent[c] < FileLen[c]
    /\ sent' = [sent EXCEPT ![c] = @ + 1]
    /\ UNCHANGED <<asked, owed, verdict, got, told>>

Close(c, v) ==
    /\ c \in owed
    /\ \/ v = "end" /\ sent[c] = FileLen[c]
       \/ v = "error" /\ c \in Faulty
    /\ owed' = owed \ {c}
    /\ verdict' = [verdict EXCEPT ![c] = v]
    /\ UNCHANGED <<asked, sent, got, told>>

Take(c) ==
    /\ Len(got[c]) < sent[c]
    /\ got' = [got EXCEPT ![c] = Append(@, <<c, Len(@) + 1>>)]
    /\ UNCHANGED <<asked, owed, sent, verdict, told>>

Hear(c) ==
    /\ Len(got[c]) = sent[c]
    /\ told[c] = "none" /\ verdict[c] # "none"
    /\ told' = [told EXCEPT ![c] = verdict[c]]
    /\ UNCHANGED <<asked, owed, sent, verdict, got>>

Next ==
    \E c \in Clients :
        \/ Ask(c) \/ Lose(c) \/ Break(c) \/ Send(c) \/ Take(c) \/ Hear(c)
        \/ \E v \in {"end", "error"} : Close(c, v)

Spec == Init /\ [][Next]_serviceVars
=============================================================================
