----------------------------- MODULE ServerNames -----------------------------
(***************************************************************************)
(* webtunnel's choice of a server name.  A bridge line may give a list of  *)
(* names; all dials with that list share a position in it, which is moved  *)
(* on when a dial fails with the name at it.  Reading the name and moving  *)
(* the position are two critical sections, with the whole dial in between. *)
(***************************************************************************)
EXTENDS Integers, Sequences

CONSTANTS
  Names,
  Blank,      \* an entry of nothing but space, not a name
  Working,    \* the names with which a bridge can be reached
  Specs,      \* the values of the servername argument, split at the commas
              \* (without a value there is no generator, and nothing of this)
  Dialers     \* goroutines of the client

ASSUME ServerNamesAssumption ==
  /\ Blank \notin Names /\ Working \subseteq Names
  /\ Specs \subseteq Seq(Names \cup {Blank}) \ {<<>>}

VARIABLES
  position,     \* per spec: the shared position, 0 before there is a generator
  dialAt,       \* per dial: "idle", "connected", "named", "open", "failed" or "panic"
  dialSpec,     \* per dial: its spec
  serverName    \* per dial: the name it uses

namesVars == <<position, dialAt, dialSpec, serverName>>

\* parse.  An argument of only space is the empty spec, which has no names and
\* is no error; one of only commas is.
NamesOf(spec) == SelectSeq(spec, LAMBDA entry : entry # Blank)
InvalidSpec(spec) == Len(spec) > 1 /\ NamesOf(spec) = <<>>

NamesInit ==
  /\ position = [s \in Specs |-> 0]
  /\ dialAt = [d \in Dialers |-> "idle"]
  /\ dialSpec = [d \in Dialers |-> <<>>]
  /\ serverName = [d \in Dialers |-> Blank]

\* dialFn; when it fails the dial is over and nothing has changed.
Connect(d, spec) ==
  /\ dialAt[d] = "idle"
  /\ dialAt' = [dialAt EXCEPT ![d] = "connected"]
  /\ dialSpec' = [dialSpec EXCEPT ![d] = spec]
  /\ UNCHANGED <<position, serverName>>

\* GetGenerator.  The first dial with a spec makes its generator, which starts
\* anywhere in the list: csrand.Intn(0) panics when it is empty.
GetGenerator(d) ==
  /\ dialAt[d] = "connected" /\ position[dialSpec[d]] = 0
  /\ LET names == NamesOf(dialSpec[d]) IN
     IF names = <<>>
     THEN /\ dialAt' = [dialAt EXCEPT ![d] = IF InvalidSpec(dialSpec[d]) THEN "failed" ELSE "panic"]
          /\ UNCHANGED position
     ELSE /\ \E p \in DOMAIN names : position' = [position EXCEPT ![dialSpec[d]] = p]
          /\ UNCHANGED dialAt
  /\ UNCHANGED <<dialSpec, serverName>>

NameAt(spec) == NamesOf(spec)[position[spec]]

GenerateServerName(d) ==
  /\ dialAt[d] = "connected" /\ position[dialSpec[d]] # 0
  /\ serverName' = [serverName EXCEPT ![d] = NameAt(dialSpec[d])]
  /\ dialAt' = [dialAt EXCEPT ![d] = "named"]
  /\ UNCHANGED <<position, dialSpec>>

\* Mutant: the failed dial moves the position wherever it is.
RerollAnyway(d) ==
  LET spec == dialSpec[d] IN
  position' = [position EXCEPT ![spec] = (@ % Len(NamesOf(spec))) + 1]

\* RerollIfServerNameCandidateNotChanged, for the name the dial has used.
Reroll(d) ==
  LET spec == dialSpec[d] IN
  IF NameAt(spec) = serverName[d]
  THEN position' = [position EXCEPT ![spec] = (@ % Len(NamesOf(spec))) + 1]
  ELSE UNCHANGED position

\* The TLS client cannot be set up: that moves nothing.  Its handshake comes with
\* the HTTP upgrade, which fails with a name that does not work, and with no
\* other (the network itself does not fail); or the connection is made.
TLSFails(d) ==
  /\ dialAt[d] = "named"
  /\ dialAt' = [dialAt EXCEPT ![d] = "failed"]
  /\ UNCHANGED <<position, dialSpec, serverName>>

UpgradeFails(d) ==
  /\ dialAt[d] = "named" /\ serverName[d] \notin Working
  /\ dialAt' = [dialAt EXCEPT ![d] = "failed"]
  /\ Reroll(d)
  /\ UNCHANGED <<dialSpec, serverName>>

Upgraded(d) ==
  /\ dialAt[d] = "named" /\ serverName[d] \in Working
  /\ dialAt' = [dialAt EXCEPT ![d] = "open"]
  /\ UNCHANGED <<position, dialSpec, serverName>>

\* tor tries again, or closes the connection.
NextDial(d) ==
  /\ dialAt[d] \in {"open", "failed"}
  /\ dialAt' = [dialAt EXCEPT ![d] = "idle"]
  /\ dialSpec' = [dialSpec EXCEPT ![d] = <<>>]
  /\ serverName' = [serverName EXCEPT ![d] = Blank]
  /\ UNCHANGED position

\* A panic in one dial ends the process, and the others with it.
NamesNext ==
  /\ \A d \in Dialers : dialAt[d] # "panic"
  /\ \E d \in Dialers :
       \/ \E spec \in Specs : Connect(d, spec)
       \/ GetGenerator(d) \/ GenerateServerName(d)
       \/ TLSFails(d) \/ UpgradeFails(d) \/ Upgraded(d) \/ NextDial(d)

NamesSpec == NamesInit /\ [][NamesNext]_namesVars

-----------------------------------------------------------------------------
\* A name that works is kept: dials that failed with an older name, and come
\* back to the generator only after another has moved it, do not move it away.
WorkingNameStays ==
  [][\A s \in Specs : position[s] # 0 /\ NameAt(s) \in Working => position'[s] = position[s]]_namesVars
=============================================================================
