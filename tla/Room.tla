--------------------------------- MODULE Room ---------------------------------
(***************************************************************************)
(* What those in the ChatOps room may rely on, however slowly the others   *)
(* read and whenever they come and go.  One enters once, with a role.      *)
(* The messages of others put nobody out whose client has not gone away;   *)
(* one leaves without a word only when the client has gone away or has     *)
(* just said something that is not text.  Only who is in the room speaks;  *)
(* a message comes to nobody twice, and to nobody outside.  When it ends,  *)
(* it has missed at most one of those in the room for each one it had come *)
(* to, or the speaker, that is in it no longer.                            *)
(***************************************************************************)
EXTENDS Naturals, FiniteSets

CONSTANTS Conns, Roles, None

VARIABLES
  ever,     \* the connections that have entered
  gone,     \* those whose client has gone away
  garbled,  \* those who have just said something that is not text
  role,     \* the role of each connection in the room; None: it is outside
  talking,  \* the connections from which a message is under way
  heard     \* heard[c]: whom it has come to, the speaker included

vars == <<ever, gone, garbled, role, talking, heard>>

Members == {c \in Conns : role[c] # None}

Init ==
  /\ ever = {} /\ gone = {} /\ garbled = {} /\ talking = {}
  /\ role  = [c \in Conns |-> None]
  /\ heard = [c \in Conns |-> {}]

Enter(c) ==
  /\ c \notin ever
  /\ ever' = ever \cup {c}
  /\ \E r \in Roles : role' = [role EXCEPT ![c] = r]
  /\ UNCHANGED <<gone, garbled, talking, heard>>

GoAway(c) ==
  /\ c \in ever \ gone
  /\ gone' = gone \cup {c}
  /\ UNCHANGED <<ever, garbled, role, talking, heard>>

Garble(c) ==
  /\ c \in ever \ (talking \cup garbled)
  /\ garbled' = garbled \cup {c}
  /\ UNCHANGED <<ever, gone, role, talking, heard>>

PutOut(S) ==
  role' = [c \in Conns |-> IF c \in S THEN None ELSE role[c]]

\* From now on a message of c is under way.
Begin(c, known) ==
  /\ c \notin talking
  /\ talking' = talking \cup {c}
  /\ heard'   = [heard EXCEPT ![c] = known]

Speak(c) == c \in Members /\ Begin(c, {c}) /\ UNCHANGED <<ever, gone, garbled, role>>

Reach(c, d) ==
  /\ c \in talking /\ d \in Members \ heard[c]
  /\ heard' = [heard EXCEPT ![c] = @ \cup {d}]
  /\ UNCHANGED <<ever, gone, garbled, role, talking>>

\* The message is over; some of those who cannot be reached any more are put out.
End(c) ==
  /\ c \in talking
  /\ Cardinality(Members \ heard[c]) <= Cardinality(heard[c] \ Members)
  /\ \E S \in SUBSET (heard[c] \cap gone) : PutOut(S)
  /\ talking' = talking \ {c}
  /\ heard'   = [heard EXCEPT ![c] = {}]
  /\ UNCHANGED <<ever, gone, garbled>>

\* c is put out, and its departure made known.
Depart(c) ==
  /\ c \in gone
  /\ PutOut({c})
  /\ Begin(c, {})
  /\ UNCHANGED <<ever, gone, garbled>>

\* c is put out, and nobody is told.
Slip(c) ==
  /\ c \in (gone \cup garbled) \ talking
  /\ PutOut({c})
  /\ garbled' = garbled \ {c}
  /\ UNCHANGED <<ever, gone, talking, heard>>

Next ==
  \E c \in Conns :
    \/ Enter(c) \/ GoAway(c) \/ Garble(c) \/ Speak(c) \/ Depart(c) \/ Slip(c)
    \/ End(c)
    \/ \E d \in Conns : Reach(c, d)

Spec == Init /\ [][Next]_vars
=============================================================================
