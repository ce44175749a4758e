--------------------------- MODULE ConfigMigration ---------------------------
(* LoadConfigFile: a configuration file of any version is migrated key by key,
   decoded strictly over the defaults, brought in range, and saved if its version
   changed.  A file is edited by its operator, or by a panel, between loads.
   Of the keys a step drops without looking at them one stands for all. *)
EXTENDS Naturals

CONSTANTS
  Hosts,             \* hosts an operator names
  ExampleHost,       \* exampleServerHost
  Ports,             \* numbers given as sessionInfo.port
  DefaultPort,
  NotANumber,        \* a port that configInt does not read
  Blank,             \* an empty string
  Absent,            \* a key that is not there
  Versions,          \* versions of the files that are met, 0 for none given
  NoFile, NoConfig

CurrentConfigVersion == 7

Targets == (Hosts \cup {ExampleHost}) \X ((Ports \ {0}) \cup {DefaultPort})
ExampleTarget == <<ExampleHost, DefaultPort>>

\* Top-level keys in "keys": remote (session.remoteAddress, remotePort), relay (also
\* icePortRange), autoUnfollow, signalingMode, subAccounts, and one that never was valid.
Obsolete == {"remote", "relay", "autoUnfollow", "signalingMode", "subAccounts"}
Keys == Obsolete \cup {"typo"}

Documents ==
  [version : Versions \cup {CurrentConfigVersion},
   joinUrl : Targets \cup {Blank, Absent},
   ip : Hosts \cup {ExampleHost, Blank, Absent}, port : Ports \cup {NotANumber, Absent},
   autoFollow : BOOLEAN \cup {Absent}, autoFriend : BOOLEAN \cup {Absent},
   override : BOOLEAN,   \* sessionInfo.version and protocol are set
   low : BOOLEAN,        \* an interval is below its minimum
   keys : SUBSET Keys]

\* What stands for no value, or for a value of no use, is none of the values.
ASSUME ConfigAssumption ==
  /\ Ports \subseteq Nat /\ DefaultPort \in Nat \ {0}
  /\ Versions \subseteq Nat
  /\ {NotANumber, Absent} \cap Nat = {}
  /\ Absent \notin Targets \cup Hosts \cup {ExampleHost, Blank} \cup BOOLEAN
  /\ Blank \notin Targets \cup Hosts \cup {ExampleHost}
  /\ NoFile \notin Documents

\* The keys a file of the given version may have had; joinUrl may have come from a panel.
Legal(doc) ==
  /\ doc.keys \subseteq Obsolete
  /\ doc.version \in 1..3 \/ "remote" \notin doc.keys
  /\ doc.version \in 1..4 \/ /\ doc.ip = Absent /\ doc.port = Absent
                             /\ doc.autoFollow = Absent
                             /\ doc.keys \cap {"relay", "autoUnfollow"} = {}
  /\ doc.version \in 1..5 \/ "signalingMode" \notin doc.keys
  /\ doc.version \in 1..6 \/ "subAccounts" \notin doc.keys
  /\ doc.version >= 5 \/ doc.autoFriend = Absent

\* The files met: of a version's own keys, or of a current file with no version or a typo.
Files ==
  {doc \in Documents :
     \/ Legal(doc)
     \/ Legal([doc EXCEPT !.version = CurrentConfigVersion, !.keys = @ \ {"typo"}])}

VARIABLES
  file,    \* the file, or NoFile
  wanted,  \* the target its last edit meant
  result,  \* how the last load ended, or the edit since
  cfg,     \* the configuration it returned, or NoConfig
  notes    \* the notes of it that its caller got

vars == <<file, wanted, result, cfg, notes>>

-----------------------------------------------------------------------------
(* configMigrations.  A step returns the document and its notes. *)

Step(doc, said) == [doc |-> doc, notes |-> said]

migrateDropSessionOverrides(doc) ==
  Step([doc EXCEPT !.override = FALSE, !.keys = @ \ {"remote"}],
       (IF doc.override THEN {"override"} ELSE {}) \cup (doc.keys \cap {"remote"}))

NamesHost(doc) == doc.ip \notin {Absent, Blank}
ServerPort(doc) == IF doc.port \in Nat \ {0} THEN doc.port ELSE DefaultPort

JoinURL(doc) == IF NamesHost(doc) /\ doc.joinUrl \in {Absent, Blank}
                THEN <<doc.ip, ServerPort(doc)>> ELSE doc.joinUrl

migrateHTTPSignalingRelay(doc) ==
  Step([doc EXCEPT !.joinUrl = JoinURL(doc), !.ip = Absent, !.port = Absent,
                   !.autoFriend = IF doc.autoFollow # Absent THEN doc.autoFollow ELSE @,
                   !.autoFollow = Absent, !.keys = @ \ {"relay", "autoUnfollow"}],
       (IF NamesHost(doc) THEN {"ip"} ELSE {})
         \cup (IF doc.autoFollow # Absent THEN {"autoFollow"} ELSE {})
         \cup (doc.keys \cap {"relay", "autoUnfollow"}))

migrateDropSignalingMode(doc) ==
  Step([doc EXCEPT !.keys = @ \ {"signalingMode"}], doc.keys \cap {"signalingMode"})

\* Mutant: sub-accounts are dropped with the signaling mode, so not from version 6.
migrateDropSubAccountsEarlier(doc) ==
  Step([doc EXCEPT !.keys = IF doc.version < 6 THEN @ \ {"subAccounts"} ELSE @],
       IF doc.version < 6 THEN doc.keys \cap {"subAccounts"} ELSE {})

migrateDropSubAccounts(doc) ==
  Step([doc EXCEPT !.keys = @ \ {"subAccounts"}], doc.keys \cap {"subAccounts"})

\* The migration to version v, one step, after the earlier ones made m of the document.
Newer(v, m, step) ==
  IF m.doc.version >= v THEN m ELSE Step(step.doc, m.notes \cup step.notes)

configMigrations(doc) ==
  LET to4 == Newer(4, Step(doc, {}), migrateDropSessionOverrides(doc))
      to5 == Newer(5, to4, migrateHTTPSignalingRelay(to4.doc))
      to6 == Newer(6, to5, migrateDropSignalingMode(to5.doc))
  IN  Newer(7, to6, migrateDropSubAccounts(to6.doc))

\* Without a note the document is decoded as it was written.
Decoded(doc) ==
  IF configMigrations(doc).notes = {} THEN doc ELSE configMigrations(doc).doc

decodeStrict(doc) ==
  doc.keys = {} /\ doc.ip = Absent /\ doc.port = Absent /\ doc.autoFollow = Absent

-----------------------------------------------------------------------------
(* The configuration: the document over DefaultConfigFile. *)

Or(value, default) == IF value = Absent THEN default ELSE value

Configuration(doc) ==
  [version |-> IF doc.version = 0 THEN CurrentConfigVersion ELSE doc.version,
   joinUrl |-> Or(doc.joinUrl, ExampleTarget),
   autoFriend |-> Or(doc.autoFriend, TRUE),
   override |-> doc.override,
   low |-> doc.low]

migrate(c) ==
  [c EXCEPT !.version = IF @ < CurrentConfigVersion THEN CurrentConfigVersion ELSE @,
            !.low = FALSE]

\* Mutant: a key that is false is left out.
encodeConfigOmitting(c) ==
  [version |-> c.version, joinUrl |-> c.joinUrl, ip |-> Absent, port |-> Absent,
   autoFollow |-> Absent, autoFriend |-> IF c.autoFriend THEN TRUE ELSE Absent,
   override |-> c.override, low |-> c.low, keys |-> {}]

encodeConfig(c) ==
  [version |-> c.version, joinUrl |-> c.joinUrl, ip |-> Absent, port |-> Absent,
   autoFollow |-> Absent, autoFriend |-> c.autoFriend,
   override |-> c.override, low |-> c.low, keys |-> {}]

DefaultConfigFile ==
  [version |-> CurrentConfigVersion, joinUrl |-> ExampleTarget, autoFriend |-> TRUE,
   override |-> FALSE, low |-> FALSE]

-----------------------------------------------------------------------------
\* The target an operator means, by joinUrl or as it was written before version 5.
Meant(doc) ==
  IF doc.joinUrl \notin {Absent, Blank} THEN doc.joinUrl
  ELSE IF doc.version < 5 /\ NamesHost(doc) THEN <<doc.ip, ServerPort(doc)>>
  ELSE Or(doc.joinUrl, ExampleTarget)

Init ==
  /\ \/ file \in Files /\ wanted = Meant(file)
     \/ file = NoFile /\ wanted = ExampleTarget
  /\ result = "none" /\ cfg = NoConfig /\ notes = {}

Fails(why) == result' = why /\ cfg' = NoConfig /\ notes' = {}

\* A missing file is written, for the operator to edit.
Create ==
  /\ file = NoFile
  /\ \/ file' = encodeConfig(DefaultConfigFile) /\ Fails("created")
     \/ UNCHANGED file /\ Fails("unwritable")
  /\ UNCHANGED wanted

\* It cannot be read, or is no document at all.
LoadUnreadable ==
  /\ file # NoFile
  /\ Fails("unreadable")
  /\ UNCHANGED <<file, wanted>>

LoadUnknownKey ==
  /\ file # NoFile /\ ~decodeStrict(Decoded(file))
  /\ Fails("unknown key")
  /\ UNCHANGED <<file, wanted>>

Saved(old, new) == encodeConfig(new)

Return(c, said) ==
  IF c.joinUrl \in Targets /\ c.joinUrl[1] = ExampleHost
  THEN Fails("example host")
  ELSE result' = "loaded" /\ cfg' = c /\ notes' = said

\* The file is saved if its version changed.  Failing that is only noted.
Load ==
  /\ file # NoFile /\ decodeStrict(Decoded(file))
  /\ LET old  == Configuration(Decoded(file))
         new  == migrate(old)
         said == configMigrations(file).notes \cup (IF old.low THEN {"interval"} ELSE {})
     IN IF old.version = new.version
        THEN UNCHANGED file /\ Return(new, said)
        ELSE \/ file' = Saved(old, new) /\ Return(new, said)
             \/ UNCHANGED file /\ Return(new, said \cup {"unsaved"})
  /\ UNCHANGED wanted

LoadConfigFile == Create \/ LoadUnreadable \/ LoadUnknownKey \/ Load

\* An edit between loads, here followed by a start of its own.
Edited == result' = "edited" /\ cfg' = NoConfig /\ notes' = {}

SetTarget(u) ==
  /\ file # NoFile /\ file.joinUrl # u
  /\ file' = [file EXCEPT !.joinUrl = u] /\ wanted' = u
  /\ Edited

SetOverride ==
  /\ file # NoFile
  /\ file' = [file EXCEPT !.override = TRUE]
  /\ Edited
  /\ UNCHANGED wanted

Next == LoadConfigFile \/ (\E u \in Targets : SetTarget(u)) \/ SetOverride

Spec == Init /\ [][Next]_vars
-----------------------------------------------------------------------------
Noted == Obsolete \cup {"override", "ip", "autoFollow", "interval", "unsaved"}

TypeOK ==
  /\ file \in Documents \cup {NoFile}
  /\ wanted \in Targets \cup {Blank}
  /\ result \in {"none", "created", "unwritable", "unreadable", "unknown key", "example host", "loaded",
                 "edited"}
  /\ cfg # NoConfig =>
       /\ cfg.version \in Versions \cup {CurrentConfigVersion} /\ cfg.version >= CurrentConfigVersion
       /\ cfg.joinUrl \in Targets \cup {Blank} /\ cfg.joinUrl # ExampleTarget
       /\ cfg.autoFriend \in BOOLEAN /\ cfg.override \in BOOLEAN /\ ~cfg.low
  /\ notes \subseteq Noted

\* Starting again on the same file starts the same broadcaster, whether or not
\* the first start could save the migrated file.
StartsTheSame ==
  [][result = "loaded" /\ LoadConfigFile /\ result' # "unreadable"
     => result' = "loaded" /\ cfg' = cfg]_vars

\* A file that a load has rewritten is loaded without a note, and not written again.
QuietOnceRewritten ==
  [][LoadConfigFile /\ file' # file /\ file' # NoFile
     => /\ configMigrations(file').notes = {} /\ decodeStrict(file')
        /\ Configuration(file') = migrate(Configuration(file'))]_vars

\* Migrating is done once: whatever a load saves or cannot save (config_file.go:239),
\* the next finds what this one found.
LoadIsStable == StartsTheSame /\ QuietOnceRewritten

\* A file with the keys of its own version and a server's address is not refused,
\* whichever version it is.
LegalLoads ==
  result = "unknown key" /\ file.version > 0 /\ Legal(file)
  => file.version < 5 /\ ~NamesHost(file)

\* Joins are sent to the target the operator or the panel named, in whichever form
\* the file's version had, after any number of loads, saved or not.
TargetIsKept == result = "loaded" => cfg.joinUrl = wanted

\* An older file starts the broadcaster its operator meant (config_file.go:258).
OlderLoads == LegalLoads /\ TargetIsKept
=============================================================================
