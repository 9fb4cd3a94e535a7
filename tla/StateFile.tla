------------------------------ MODULE StateFile ------------------------------
(***************************************************************************)
(* What an obfs4 bridge keeps on disk: its state (identity and iat-mode)   *)
(* and the bridge line made for its operator.  Both files are rewritten in *)
(* place at every start; a write is a truncation and a fill, and the       *)
(* process may die, or the write fail, between any two steps.              *)
(***************************************************************************)
EXTENDS Integers

CONSTANTS
  Identities,   \* node ID, key pair and DRBG seed, as one value
  NoIdentity    \* not one of them

ASSUME StateFileAssumption == NoIdentity \notin Identities

\* The iat-mode argument: one that is missing, the modes there are, and one
\* that is none of them (a malformed one is refused at the same place).
IatMissing == -1
IatModes == 0 .. 2
IatInvalid == 3

Settings == [id : Identities \cup {NoIdentity}, iat : IatModes]
Nothing == [id |-> NoIdentity, iat |-> 0]

Absent == [is |-> "absent", holds |-> Nothing]
Torn == [is |-> "torn", holds |-> Nothing]
Whole(settings) == [is |-> "whole", holds |-> settings]

VARIABLES
  stateFile, bridgeFile,   \* the two files
  boot,        \* "down", what is written next, "check" or "up"
  truncated,   \* the file written next has been truncated
  js,          \* the settings being set up, or in use
  iatArg,      \* the iat-mode argument of this start
  known,       \* history: identities that were generated or given
  lastUp,      \* history: the identity last in service
  asked        \* history: identities given by the operator since

stateVars == <<stateFile, bridgeFile, boot, truncated, js, iatArg, known, lastUp, asked>>

StateInit ==
  /\ stateFile = Absent /\ bridgeFile = Absent
  /\ boot = "down" /\ truncated = FALSE
  /\ js = Nothing /\ iatArg = IatMissing
  /\ known = {} /\ lastUp = NoIdentity /\ asked = {}

GoDown == boot' = "down" /\ truncated' = FALSE /\ js' = Nothing /\ iatArg' = IatMissing

\* A start with an identity in the arguments: the state file is not read.
StartGiven(id, iat) ==
  /\ boot = "down"
  /\ boot' = "check"
  /\ js' = [id |-> id, iat |-> 0]
  /\ iatArg' = iat
  /\ known' = known \cup {id}
  /\ asked' = asked \cup {id}
  /\ UNCHANGED <<stateFile, bridgeFile, truncated, lastUp>>

\* Mutant: a state that cannot be parsed is taken for a missing one.
StartOverTorn(id, iat) ==
  /\ boot = "down" /\ stateFile.is # "whole"
  /\ id \notin known
  /\ boot' = "newState"
  /\ js' = [id |-> id, iat |-> 0]
  /\ iatArg' = iat
  /\ known' = known \cup {id}
  /\ UNCHANGED <<stateFile, bridgeFile, truncated, lastUp, asked>>

\* A first start makes an identity that nobody has, and writes it at once.
StartNew(id, iat) ==
  /\ boot = "down" /\ stateFile = Absent
  /\ id \notin known
  /\ boot' = "newState"
  /\ js' = [id |-> id, iat |-> 0]
  /\ iatArg' = iat
  /\ known' = known \cup {id}
  /\ UNCHANGED <<stateFile, bridgeFile, truncated, lastUp, asked>>

\* Any other start takes what the file holds.  A torn file does not parse, and
\* an incomplete set of arguments is refused: nothing changes then.
StartFromFile(iat) ==
  /\ boot = "down" /\ stateFile.is = "whole"
  /\ boot' = "check"
  /\ js' = stateFile.holds
  /\ iatArg' = iat
  /\ UNCHANGED <<stateFile, bridgeFile, truncated, known, lastUp, asked>>

\* The iat-mode argument overrides, and the mode is checked whatever its origin.
Check ==
  /\ boot = "check"
  /\ LET iat == IF iatArg = IatMissing THEN js.iat ELSE iatArg IN
     IF iat \in IatModes
     THEN boot' = "bridgeLine" /\ js' = [js EXCEPT !.iat = iat] /\ UNCHANGED <<truncated, iatArg>>
     ELSE GoDown
  /\ UNCHANGED <<stateFile, bridgeFile, known, lastUp, asked>>

Target(content) ==
  IF boot = "bridgeLine" THEN bridgeFile' = content /\ UNCHANGED stateFile
                          ELSE stateFile' = content /\ UNCHANGED bridgeFile

Truncate ==
  /\ boot \in {"newState", "bridgeLine", "state"} /\ ~truncated
  /\ truncated' = TRUE
  /\ Target(Torn)
  /\ UNCHANGED <<boot, js, iatArg, known, lastUp, asked>>

\* The bridge line is written before the state; when both are, the factory is
\* ready and the identity is in service.
Fill ==
  /\ truncated
  /\ truncated' = FALSE
  /\ Target(Whole(js))
  /\ boot' = CASE boot = "newState" -> "check"
               [] boot = "bridgeLine" -> "state"
               [] boot = "state" -> "up"
  /\ lastUp' = IF boot = "state" THEN js.id ELSE lastUp
  /\ asked' = IF boot = "state" THEN {} ELSE asked
  /\ UNCHANGED <<js, iatArg, known>>

\* Mutant: the error of the last write is dropped.
WriteFailsUnnoticed ==
  /\ boot \in {"newState", "bridgeLine", "state"}
  /\ IF boot = "state"
     THEN boot' = "up" /\ truncated' = FALSE /\ lastUp' = js.id /\ asked' = {}
          /\ UNCHANGED <<js, iatArg>>
     ELSE GoDown /\ UNCHANGED <<lastUp, asked>>
  /\ UNCHANGED <<stateFile, bridgeFile, known>>

\* A file that cannot be opened, or is full in the middle: the start fails.
WriteFails ==
  /\ boot \in {"newState", "bridgeLine", "state"}
  /\ GoDown
  /\ UNCHANGED <<stateFile, bridgeFile, known, lastUp, asked>>

\* The process dies, during its start or in service.
Die ==
  /\ boot # "down"
  /\ GoDown
  /\ UNCHANGED <<stateFile, bridgeFile, known, lastUp, asked>>

StateNext ==
  \/ \E id \in Identities, iat \in {IatMissing, IatInvalid} \cup IatModes :
       StartGiven(id, iat) \/ StartNew(id, iat)
  \/ \E iat \in {IatMissing, IatInvalid} \cup IatModes : StartFromFile(iat)
  \/ Check \/ Truncate \/ Fill \/ WriteFails \/ Die

StateSpec == StateInit /\ [][StateNext]_stateVars

-----------------------------------------------------------------------------
\* A bridge whose clients know its identity does not come back with another,
\* whatever write a crash or an error has interrupted, unless the operator has
\* given it one since: a state that is lost stops the bridge and is never
\* replaced in silence.
KeepsIdentity ==
  [][lastUp # NoIdentity /\ lastUp' # lastUp => lastUp' \in asked]_stateVars

\* A bridge in service uses the identity and the mode that both files hold, so
\* that the next start and the operator's clients find the same.
RunsOnWhatIsWritten ==
  boot = "up" => stateFile = Whole(js) /\ bridgeFile = Whole(js)
=============================================================================
