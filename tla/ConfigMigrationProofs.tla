------------------------ MODULE ConfigMigrationProofs ------------------------
(* The loading of configuration files, for any hosts, ports and versions.

   A load is a function of the file, so that most of the proof is about functions:
   what the chain of migrations makes of each field of a document, and that a
   configuration that is encoded and decoded again is the same.  The invariant says
   that the file means what its last edit meant, in whichever form it is by now, and
   that what the last load returned is what the next one finds. *)
EXTENDS ConfigMigration, TLAPS

-----------------------------------------------------------------------------
(* The chain of migrations. *)

\* The document and its notes after the migrations to versions 4, 5 and 6.
To4(doc) == Newer(4, Step(doc, {}), migrateDropSessionOverrides(doc))
To5(doc) == Newer(5, To4(doc), migrateHTTPSignalingRelay(To4(doc).doc))
To6(doc) == Newer(6, To5(doc), migrateDropSignalingMode(To5(doc).doc))

(* The migrations in order, up to the last, which drops the sub accounts. *)
LEMMA Chain ==
  ASSUME NEW doc
  PROVE  configMigrations(doc) = Newer(7, To6(doc), migrateDropSubAccounts(To6(doc).doc))
  BY DEF configMigrations, To4, To5, To6

\* The keys that a document of version v loses.
Dropped(v) ==
  {k \in Obsolete :
     \/ k = "remote" /\ v < 4
     \/ k \in {"relay", "autoUnfollow"} /\ v < 5
     \/ k = "signalingMode" /\ v < 6
     \/ k = "subAccounts" /\ v < 7}

\* A migration is skipped or done, with its notes put to the earlier ones.
LEMMA NewerIs ==
  ASSUME NEW v, NEW m, NEW step
  PROVE  /\ m.doc.version >= v => Newer(v, m, step) = m
         /\ ~(m.doc.version >= v) =>
              /\ Newer(v, m, step).doc = step.doc
              /\ Newer(v, m, step).notes = m.notes \cup step.notes
  BY DEF Newer, Step

(* A file's version is a number, so that versions can be compared. *)
LEMMA VersionsAreNumbers ==
  ASSUME ConfigAssumption, NEW doc \in Documents
  PROVE  doc.version \in Nat
<1>1. doc.version \in Versions \cup {7}
  BY DEF Documents, CurrentConfigVersion
<1>2. Versions \subseteq Nat
  BY DEF ConfigAssumption
<1>3. CASE doc.version = 7
  BY <1>3
<1> QED
  BY <1>1, <1>2, <1>3

\* Before version 4: the overrides and the remote keys are dropped.
LEMMA After4 ==
  ASSUME ConfigAssumption, NEW doc \in Documents
  PROVE  /\ To4(doc).doc \in Documents /\ To4(doc).notes \subseteq Noted
         /\ To4(doc).doc.version = doc.version /\ To4(doc).doc.joinUrl = doc.joinUrl
         /\ To4(doc).doc.ip = doc.ip /\ To4(doc).doc.port = doc.port
         /\ To4(doc).doc.autoFollow = doc.autoFollow
         /\ To4(doc).doc.keys = IF doc.version < 4 THEN doc.keys \ {"remote"} ELSE doc.keys
         /\ doc.version >= 4 => To4(doc).notes = {}
         /\ doc.version < 4 => doc.keys \cap {"remote"} \subseteq To4(doc).notes
<1> DEFINE m == Step(doc, {})
           s == migrateDropSessionOverrides(doc)
<1>1. m.doc = doc /\ m.notes = {}
  BY DEF Step
<1>2. /\ s.doc = [doc EXCEPT !.override = FALSE, !.keys = @ \ {"remote"}]
      /\ s.notes = (IF doc.override THEN {"override"} ELSE {}) \cup (doc.keys \cap {"remote"})
  BY DEF migrateDropSessionOverrides, Step
<1>3. s.doc \in Documents /\ s.doc.keys = doc.keys \ {"remote"}
  <2>1. ASSUME NEW o \in BOOLEAN, NEW k \in SUBSET Keys
        PROVE  /\ [doc EXCEPT !.override = o, !.keys = k] \in Documents
               /\ [doc EXCEPT !.override = o, !.keys = k].keys = k
    BY DEF Documents
  <2>2. doc.keys \ {"remote"} \in SUBSET Keys
    BY DEF Documents
  <2> QED
    BY <1>2, <2>1, <2>2
<1>4. /\ s.doc.version = doc.version /\ s.doc.joinUrl = doc.joinUrl
      /\ s.doc.ip = doc.ip /\ s.doc.port = doc.port /\ s.doc.autoFollow = doc.autoFollow
  BY <1>2 DEF Documents
<1>5. doc.version \in Nat
  BY VersionsAreNumbers
<1>6. To4(doc) = Newer(4, m, s)
  BY DEF To4
<1> HIDE DEF m, s
<1>7. CASE doc.version >= 4
  <2>1. To4(doc) = m
    BY <1>1, <1>6, <1>7, NewerIs
  <2> QED
    BY <2>1, <1>1, <1>5, <1>7
<1>8. CASE ~(doc.version >= 4)
  <2>1. To4(doc).doc = s.doc /\ To4(doc).notes = {} \cup s.notes
    <3>1. ~(m.doc.version >= 4)
      BY <1>1, <1>8
    <3>2. /\ Newer(4, m, s).doc = s.doc
          /\ Newer(4, m, s).notes = m.notes \cup s.notes
      BY <3>1, NewerIs
    <3> QED
      BY <3>2, <1>1, <1>6
  <2>2. s.notes \subseteq Noted
    BY <1>2 DEF Noted, Obsolete
  <2> QED
    BY <2>1, <2>2, <1>2, <1>3, <1>4, <1>5, <1>8
<1> QED
  BY <1>7, <1>8

\* A document with the fields set that the migration to version 5 sets.
Moved(d, u, f, k) ==
  [d EXCEPT !.joinUrl = u, !.ip = Absent, !.port = Absent,
            !.autoFriend = f, !.autoFollow = Absent, !.keys = k]

(* A document whose target and friend switch moved is a document with the
   keys given. *)
LEMMA MovedIsDocument ==
  ASSUME NEW d \in Documents, NEW u \in Targets \cup {Blank, Absent},
         NEW f \in BOOLEAN \cup {Absent}, NEW k \in SUBSET Keys
  PROVE  Moved(d, u, f, k) \in Documents /\ Moved(d, u, f, k).keys = k
<1> DEFINE d1 == [d EXCEPT !.joinUrl = u]
           d2 == [d1 EXCEPT !.ip = Absent]
           d3 == [d2 EXCEPT !.port = Absent]
           d4 == [d3 EXCEPT !.autoFriend = f]
           d5 == [d4 EXCEPT !.autoFollow = Absent]
           d6 == [d5 EXCEPT !.keys = k]
<1>1. d1 \in Documents
  BY DEF Documents
<1> HIDE DEF d1
<1>2. d2 \in Documents
  BY <1>1 DEF Documents
<1> HIDE DEF d2
<1>3. d3 \in Documents
  BY <1>2 DEF Documents
<1> HIDE DEF d3
<1>4. d4 \in Documents
  BY <1>3 DEF Documents
<1> HIDE DEF d4
<1>5. d5 \in Documents
  BY <1>4 DEF Documents
<1> HIDE DEF d5
<1>6. d6 \in Documents /\ d6.keys = k
  BY <1>5 DEF Documents
<1> HIDE DEF d6
<1>7. d6 = Moved(d, u, f, k)
  BY DEF Moved, d1, d2, d3, d4, d5, d6
<1> QED
  BY <1>6, <1>7

\* Before version 5: the target moves to joinUrl, the relay's keys are dropped.
LEMMA After5 ==
  ASSUME ConfigAssumption, NEW doc \in Documents
  PROVE  /\ To5(doc).doc \in Documents /\ To5(doc).notes \subseteq Noted
         /\ To5(doc).doc.version = doc.version
         /\ To5(doc).doc.joinUrl = IF doc.version < 5 THEN JoinURL(doc) ELSE doc.joinUrl
         /\ To5(doc).doc.ip = IF doc.version < 5 THEN Absent ELSE doc.ip
         /\ To5(doc).doc.port = IF doc.version < 5 THEN Absent ELSE doc.port
         /\ To5(doc).doc.autoFollow = IF doc.version < 5 THEN Absent ELSE doc.autoFollow
         /\ To5(doc).doc.keys = IF doc.version < 5
                                THEN To4(doc).doc.keys \ {"relay", "autoUnfollow"}
                                ELSE To4(doc).doc.keys
         /\ doc.version >= 5 => To5(doc).notes = {}
         /\ To4(doc).notes \subseteq To5(doc).notes
         /\ doc.version < 5 /\ NamesHost(doc) => To5(doc).notes # {}
         /\ doc.version < 5 =>
              To4(doc).doc.keys \cap {"relay", "autoUnfollow"} \subseteq To5(doc).notes
<1> DEFINE m == To4(doc)
           d == m.doc
           s == migrateHTTPSignalingRelay(d)
<1>1. /\ d \in Documents /\ m.notes \subseteq Noted
      /\ d.version = doc.version /\ d.joinUrl = doc.joinUrl
      /\ d.ip = doc.ip /\ d.port = doc.port /\ d.autoFollow = doc.autoFollow
      /\ doc.version >= 4 => m.notes = {}
  BY After4
<1>2. /\ s.doc = [d EXCEPT !.joinUrl = JoinURL(d), !.ip = Absent, !.port = Absent,
                           !.autoFriend = IF d.autoFollow # Absent THEN d.autoFollow ELSE @,
                           !.autoFollow = Absent, !.keys = @ \ {"relay", "autoUnfollow"}]
      /\ s.notes = (IF NamesHost(d) THEN {"ip"} ELSE {})
                     \cup (IF d.autoFollow # Absent THEN {"autoFollow"} ELSE {})
                     \cup (d.keys \cap {"relay", "autoUnfollow"})
  BY DEF migrateHTTPSignalingRelay, Step
<1>3. NamesHost(d) = NamesHost(doc) /\ JoinURL(d) = JoinURL(doc)
  BY <1>1 DEF NamesHost, JoinURL, ServerPort
<1>4. JoinURL(d) \in Targets \cup {Blank, Absent}
  BY <1>1 DEF JoinURL, NamesHost, ServerPort, Targets, Documents, ConfigAssumption
<1>5. s.doc \in Documents /\ s.doc.keys = d.keys \ {"relay", "autoUnfollow"}
  <2> DEFINE u == JoinURL(d)
             f == IF d.autoFollow # Absent THEN d.autoFollow ELSE d.autoFriend
             k == d.keys \ {"relay", "autoUnfollow"}
  <2>1. u \in Targets \cup {Blank, Absent}
    BY <1>4
  <2>2. f \in BOOLEAN \cup {Absent} /\ k \in SUBSET Keys
    BY <1>1 DEF Documents
  <2>3. s.doc = Moved(d, u, f, k)
    BY <1>2 DEF Moved
  <2> HIDE DEF d, s, u, f, k
  <2>4. s.doc \in Documents /\ s.doc.keys = k
    BY <1>1, <2>1, <2>2, <2>3, MovedIsDocument
  <2> QED
    BY <2>4 DEF k
<1>6. /\ s.doc.version = doc.version /\ s.doc.joinUrl = JoinURL(doc)
      /\ s.doc.ip = Absent /\ s.doc.port = Absent /\ s.doc.autoFollow = Absent
  BY <1>1, <1>2, <1>3 DEF Documents
<1>7. doc.version \in Nat
  BY VersionsAreNumbers
<1>8. To5(doc) = Newer(5, m, s)
  BY DEF To5
<1> HIDE DEF m, s
<1>9. CASE doc.version >= 5
  <2>1. To5(doc) = m
    BY <1>1, <1>8, <1>9, NewerIs
  <2> QED
    BY <2>1, <1>1, <1>7, <1>9 DEF m
<1>10. CASE ~(doc.version >= 5)
  <2>1. To5(doc).doc = s.doc /\ To5(doc).notes = m.notes \cup s.notes
    BY <1>1, <1>8, <1>10, NewerIs
  <2>2. s.notes \subseteq Noted
    BY <1>2 DEF Noted, Obsolete
  <2>3. d.keys \cap {"relay", "autoUnfollow"} \subseteq s.notes
    BY <1>2
  <2>4. NamesHost(doc) => "ip" \in s.notes
    BY <1>2, <1>3
  <2> QED
    BY <2>1, <2>2, <2>3, <2>4, <1>1, <1>5, <1>6, <1>7, <1>10 DEF m
<1> QED
  BY <1>9, <1>10

\* Before version 6, and before version 7, one more key is dropped.
LEMMA Migrated ==
  ASSUME ConfigAssumption, NEW doc \in Documents
  PROVE  /\ configMigrations(doc).doc \in Documents
         /\ configMigrations(doc).notes \subseteq Noted
         /\ configMigrations(doc).doc.joinUrl = To5(doc).doc.joinUrl
         /\ configMigrations(doc).doc.ip = To5(doc).doc.ip
         /\ configMigrations(doc).doc.port = To5(doc).doc.port
         /\ configMigrations(doc).doc.autoFollow = To5(doc).doc.autoFollow
         /\ configMigrations(doc).doc.keys = doc.keys \ Dropped(doc.version)
         /\ doc.version >= 7 => configMigrations(doc).notes = {}
         /\ To5(doc).notes \subseteq configMigrations(doc).notes
         /\ doc.keys \cap Dropped(doc.version) \subseteq configMigrations(doc).notes
<1> DEFINE SameBut(d, e) ==
             /\ d.version = e.version /\ d.joinUrl = e.joinUrl /\ d.ip = e.ip
             /\ d.port = e.port /\ d.autoFollow = e.autoFollow
<1>1. ASSUME NEW m, m.doc \in Documents, m.notes \subseteq Noted, m.doc.version = doc.version,
             NEW v \in {6, 7}, doc.version >= v => m.notes = {},
             NEW k \in Obsolete, NEW s,
             s.doc = [m.doc EXCEPT !.keys = @ \ {k}], s.notes = m.doc.keys \cap {k}
      PROVE  /\ Newer(v, m, s).doc \in Documents /\ Newer(v, m, s).notes \subseteq Noted
             /\ SameBut(Newer(v, m, s).doc, m.doc)
             /\ Newer(v, m, s).doc.keys = IF doc.version < v THEN m.doc.keys \ {k} ELSE m.doc.keys
             /\ doc.version >= v => Newer(v, m, s).notes = {}
             /\ m.notes \subseteq Newer(v, m, s).notes
             /\ doc.version < v => m.doc.keys \cap {k} \subseteq Newer(v, m, s).notes
  <2>1. doc.version \in Nat
    BY VersionsAreNumbers
  <2>2. CASE doc.version >= v
    <3>1. Newer(v, m, s) = m
      BY <1>1, <2>2, NewerIs
    <3> QED
      BY <3>1, <2>1, <2>2, <1>1
  <2>3. CASE ~(doc.version >= v)
    <3>1. Newer(v, m, s).doc = s.doc /\ Newer(v, m, s).notes = m.notes \cup s.notes
      BY <1>1, <2>3, NewerIs
    <3>2. s.doc \in Documents /\ SameBut(s.doc, m.doc) /\ s.doc.keys = m.doc.keys \ {k}
      BY <1>1 DEF Documents
    <3>3. s.notes \subseteq Noted
      BY <1>1 DEF Noted
    <3> QED
      BY <3>1, <3>2, <3>3, <2>1, <2>3, <1>1
  <2> QED
    BY <2>2, <2>3
<1>2. doc.version \in Nat
  BY VersionsAreNumbers
<1> DEFINE m5 == To5(doc)
           m6 == To6(doc)
           m7 == configMigrations(doc)
           s6 == migrateDropSignalingMode(m5.doc)
           s7 == migrateDropSubAccounts(m6.doc)
<1>3. /\ m5.doc \in Documents /\ m5.notes \subseteq Noted /\ m5.doc.version = doc.version
      /\ doc.version >= 5 => m5.notes = {}
  BY After5
<1>4. m6 = Newer(6, m5, s6) /\ m7 = Newer(7, m6, s7)
  BY Chain DEF To6
<1>5. /\ s6.doc = [m5.doc EXCEPT !.keys = @ \ {"signalingMode"}]
      /\ s6.notes = m5.doc.keys \cap {"signalingMode"}
  BY DEF migrateDropSignalingMode, Step
<1>6. /\ s7.doc = [m6.doc EXCEPT !.keys = @ \ {"subAccounts"}]
      /\ s7.notes = m6.doc.keys \cap {"subAccounts"}
  BY DEF migrateDropSubAccounts, Step
<1> HIDE DEF m5, m6, m7, s6, s7
<1>7. doc.version >= 6 => m5.notes = {}
  BY <1>2, <1>3
<1>8. "signalingMode" \in Obsolete /\ "subAccounts" \in Obsolete
  BY DEF Obsolete
<1>9. /\ m6.doc \in Documents /\ m6.notes \subseteq Noted /\ SameBut(m6.doc, m5.doc)
      /\ m6.doc.keys = IF doc.version < 6 THEN m5.doc.keys \ {"signalingMode"} ELSE m5.doc.keys
      /\ doc.version >= 6 => m6.notes = {}
      /\ m5.notes \subseteq m6.notes
      /\ doc.version < 6 => m5.doc.keys \cap {"signalingMode"} \subseteq m6.notes
  BY <1>1, <1>3, <1>4, <1>5, <1>7, <1>8
<1>10. m6.doc.version = doc.version /\ (doc.version >= 7 => m6.notes = {})
  BY <1>2, <1>3, <1>9
<1>11. /\ m7.doc \in Documents /\ m7.notes \subseteq Noted /\ SameBut(m7.doc, m6.doc)
       /\ m7.doc.keys = IF doc.version < 7 THEN m6.doc.keys \ {"subAccounts"} ELSE m6.doc.keys
       /\ doc.version >= 7 => m7.notes = {}
       /\ m6.notes \subseteq m7.notes
       /\ doc.version < 7 => m6.doc.keys \cap {"subAccounts"} \subseteq m7.notes
  <2>1. /\ m6.doc \in Documents /\ m6.notes \subseteq Noted /\ m6.doc.version = doc.version
        /\ doc.version >= 7 => m6.notes = {}
    BY <1>9, <1>10
  <2>2. /\ Newer(7, m6, s7).doc \in Documents /\ Newer(7, m6, s7).notes \subseteq Noted
        /\ SameBut(Newer(7, m6, s7).doc, m6.doc)
        /\ Newer(7, m6, s7).doc.keys =
             IF doc.version < 7 THEN m6.doc.keys \ {"subAccounts"} ELSE m6.doc.keys
        /\ doc.version >= 7 => Newer(7, m6, s7).notes = {}
        /\ m6.notes \subseteq Newer(7, m6, s7).notes
        /\ doc.version < 7 => m6.doc.keys \cap {"subAccounts"} \subseteq Newer(7, m6, s7).notes
    BY <2>1, <1>1, <1>6, <1>8
  <2> QED
    BY <2>2, <1>4
<1>12. /\ m5.doc.keys = IF doc.version < 5 THEN To4(doc).doc.keys \ {"relay", "autoUnfollow"}
                        ELSE To4(doc).doc.keys
       /\ To4(doc).doc.keys = IF doc.version < 4 THEN doc.keys \ {"remote"} ELSE doc.keys
       /\ doc.version < 4 => doc.keys \cap {"remote"} \subseteq m5.notes
       /\ doc.version < 5 =>
            To4(doc).doc.keys \cap {"relay", "autoUnfollow"} \subseteq m5.notes
  BY After4, After5 DEF m5
<1>13. m7.doc.keys = doc.keys \ Dropped(doc.version)
  BY <1>2, <1>9, <1>11, <1>12 DEF Dropped, Obsolete
<1>14. doc.keys \cap Dropped(doc.version) \subseteq m7.notes
  BY <1>2, <1>9, <1>11, <1>12 DEF Dropped, Obsolete
<1> QED
  BY <1>9, <1>11, <1>13, <1>14 DEF m5, m7

-----------------------------------------------------------------------------
(* Decoding and encoding. *)

\* A configuration that a load returns or saves.
Configs ==
  {c \in [version : Versions \cup {CurrentConfigVersion}, joinUrl : Targets \cup {Blank},
          autoFriend : BOOLEAN, override : BOOLEAN, low : BOOLEAN] :
     c.version >= CurrentConfigVersion /\ c.low = FALSE}

(* What migrate raises in a configuration: its version, and what was set
   too low. *)
LEMMA MigrateIs ==
  ASSUME NEW v, NEW u, NEW f, NEW o, NEW l
  PROVE  migrate([version |-> v, joinUrl |-> u, autoFriend |-> f, override |-> o, low |-> l])
           = [version |-> IF v < CurrentConfigVersion THEN CurrentConfigVersion ELSE v,
              joinUrl |-> u, autoFriend |-> f, override |-> o, low |-> FALSE]
<1> DEFINE r(x, y) == [version |-> x, joinUrl |-> u, autoFriend |-> f, override |-> o, low |-> y]
           w == IF v < CurrentConfigVersion THEN CurrentConfigVersion ELSE v
<1>1. migrate(r(v, l)) = [r(v, l) EXCEPT !.version = w, !.low = FALSE]
  <2>1. r(v, l).version = v
    OBVIOUS
  <2>2. ASSUME NEW d, d.version = v PROVE migrate(d) = [d EXCEPT !.version = w, !.low = FALSE]
    BY <2>2, Zenon DEF migrate
  <2> HIDE DEF r, w
  <2> QED
    BY <2>1, <2>2
<1>2. ASSUME NEW x, NEW y, NEW d
      PROVE  [d EXCEPT !.version = x, !.low = y] = [[d EXCEPT !.version = x] EXCEPT !.low = y]
  OBVIOUS
<1>3. ASSUME NEW x PROVE [r(v, l) EXCEPT !.version = x] = r(x, l)
  OBVIOUS
<1>4. ASSUME NEW x, NEW y PROVE [r(x, l) EXCEPT !.low = y] = r(x, y)
  OBVIOUS
<1> HIDE DEF r, w
<1>5. [r(v, l) EXCEPT !.version = w, !.low = FALSE] = r(w, FALSE)
  BY <1>2, <1>3, <1>4, Zenon
<1> QED
  BY <1>1, <1>5, Zenon DEF r, w

(* A record of a current version with legal fields is a configuration. *)
LEMMA ConfigsAre ==
  ASSUME NEW v \in Versions \cup {CurrentConfigVersion}, v >= CurrentConfigVersion,
         NEW u \in Targets \cup {Blank}, NEW f \in BOOLEAN, NEW o \in BOOLEAN
  PROVE  [version |-> v, joinUrl |-> u, autoFriend |-> f, override |-> o, low |-> FALSE] \in Configs
  BY DEF Configs

(* What a document decodes to is a configuration, with the document's
   target. *)
LEMMA ConfigurationIs ==
  ASSUME ConfigAssumption, NEW doc \in Documents
  PROVE  /\ migrate(Configuration(doc)) \in Configs
         /\ migrate(Configuration(doc)).joinUrl = Or(doc.joinUrl, ExampleTarget)
<1> DEFINE v == IF doc.version = 0 THEN CurrentConfigVersion ELSE doc.version
           u == Or(doc.joinUrl, ExampleTarget)
           f == Or(doc.autoFriend, TRUE)
           w == IF v < CurrentConfigVersion THEN CurrentConfigVersion ELSE v
           c(x) == [version |-> x, joinUrl |-> u, autoFriend |-> f, override |-> doc.override,
                    low |-> FALSE]
<1>1. doc.version \in Nat
  BY VersionsAreNumbers
<1>2. ExampleTarget \in Targets
  BY DEF ExampleTarget, Targets
<1>3. u \in Targets \cup {Blank} /\ f \in BOOLEAN
  BY <1>2 DEF Or, Documents
<1>4. doc.override \in BOOLEAN /\ doc.version \in Versions \cup {CurrentConfigVersion}
  BY DEF Documents
<1>5. w \in Versions \cup {CurrentConfigVersion} /\ w >= CurrentConfigVersion
  BY <1>1, <1>4 DEF CurrentConfigVersion
<1>6. Configuration(doc) =
        [version |-> v, joinUrl |-> u, autoFriend |-> f, override |-> doc.override,
         low |-> doc.low]
  BY DEF Configuration
<1> HIDE DEF v, u, f
<1>7. migrate([version |-> v, joinUrl |-> u, autoFriend |-> f, override |-> doc.override,
               low |-> doc.low]) = c(w)
  BY MigrateIs
<1> HIDE DEF w
<1>8. c(w) \in Configs
  BY <1>3, <1>4, <1>5, ConfigsAre
<1>9. c(w).joinUrl = u
  OBVIOUS
<1> HIDE DEF c
<1>10. migrate(Configuration(doc)) = c(w)
  BY <1>6, <1>7, Zenon
<1> QED
  BY <1>8, <1>9, <1>10 DEF u

\* What is saved is found again by the next load, which has nothing to migrate.
LEMMA Encoded ==
  ASSUME ConfigAssumption, NEW c \in Configs
  PROVE  /\ encodeConfig(c) \in Documents /\ encodeConfig(c) # NoFile
         /\ configMigrations(encodeConfig(c)).notes = {}
         /\ Decoded(encodeConfig(c)) = encodeConfig(c)
         /\ decodeStrict(encodeConfig(c))
         /\ Configuration(encodeConfig(c)) = c /\ migrate(c) = c
         /\ Meant(encodeConfig(c)) = c.joinUrl
<1> DEFINE d == encodeConfig(c)
<1>1. /\ c.version \in Versions \cup {CurrentConfigVersion} /\ c.joinUrl \in Targets \cup {Blank}
      /\ c.autoFriend \in BOOLEAN /\ c.override \in BOOLEAN /\ c.low = FALSE
      /\ c.version >= CurrentConfigVersion
      /\ c = [version |-> c.version, joinUrl |-> c.joinUrl, autoFriend |-> c.autoFriend,
              override |-> c.override, low |-> c.low]
  BY DEF Configs
<1>2. /\ d = [version |-> c.version, joinUrl |-> c.joinUrl, ip |-> Absent, port |-> Absent,
              autoFollow |-> Absent, autoFriend |-> c.autoFriend,
              override |-> c.override, low |-> c.low, keys |-> {}]
  BY DEF encodeConfig
<1>3. d \in Documents
  <2>1. /\ c.joinUrl \in Targets \cup {Blank, Absent} /\ c.autoFriend \in BOOLEAN \cup {Absent}
        /\ c.low \in BOOLEAN /\ {} \in SUBSET Keys
    BY <1>1
  <2> QED
    BY <1>1, <1>2, <2>1 DEF Documents
<1>4. d # NoFile
  BY <1>3 DEF ConfigAssumption
<1>5. d.version \in Nat /\ d.version >= 7
  BY <1>1, <1>2, <1>3, VersionsAreNumbers DEF CurrentConfigVersion
<1>6. configMigrations(d).notes = {}
  BY <1>3, <1>5, Migrated
<1>7. c.joinUrl # Absent /\ c.autoFriend # Absent
  BY <1>1 DEF ConfigAssumption
<1>8. Configuration(d) = c
  BY <1>1, <1>2, <1>5, <1>7 DEF Configuration, Or
<1>9. migrate(c) = c
  <2>1. migrate(c) =
          [version |-> IF c.version < CurrentConfigVersion THEN CurrentConfigVersion ELSE c.version,
           joinUrl |-> c.joinUrl, autoFriend |-> c.autoFriend, override |-> c.override,
           low |-> FALSE]
    <3>1. migrate([version |-> c.version, joinUrl |-> c.joinUrl, autoFriend |-> c.autoFriend,
                   override |-> c.override, low |-> c.low]) =
            [version |-> IF c.version < CurrentConfigVersion THEN CurrentConfigVersion
                         ELSE c.version,
             joinUrl |-> c.joinUrl, autoFriend |-> c.autoFriend, override |-> c.override,
             low |-> FALSE]
      BY MigrateIs
    <3> QED
      BY <1>1, <3>1, Zenon
  <2>2. ~(c.version < CurrentConfigVersion)
    BY <1>1, <1>2, <1>5 DEF CurrentConfigVersion
  <2> QED
    BY <1>1, <2>1, <2>2
<1>10. Meant(d) = c.joinUrl
  BY <1>2, <1>7 DEF Meant, NamesHost, Or
<1> QED
  BY <1>2, <1>3, <1>4, <1>6, <1>8, <1>9, <1>10 DEF Decoded, decodeStrict

(* The migrated document that is decoded is a document. *)
LEMMA DecodedIsDocument ==
  ASSUME ConfigAssumption, NEW doc \in Documents
  PROVE  Decoded(doc) \in Documents
  BY Migrated DEF Decoded

\* A document that is accepted means the target it is decoded to.
LEMMA DecodedMeans ==
  ASSUME ConfigAssumption, NEW doc \in Documents, decodeStrict(Decoded(doc))
  PROVE  Meant(doc) = Or(Decoded(doc).joinUrl, ExampleTarget)
<1>1. doc.version \in Nat
  BY VersionsAreNumbers
<1>2. CASE configMigrations(doc).notes = {}
  <2>1. Decoded(doc) = doc /\ doc.ip = Absent
    BY <1>2 DEF Decoded, decodeStrict
  <2>2. doc.joinUrl = Blank => Or(doc.joinUrl, ExampleTarget) = doc.joinUrl
    BY DEF Or, ConfigAssumption
  <2> QED
    BY <2>1 DEF Meant, NamesHost, Or
<1>3. CASE configMigrations(doc).notes # {}
  <2>1. /\ Decoded(doc).joinUrl = To5(doc).doc.joinUrl /\ To5(doc).doc.ip = Absent
    BY <1>3, Migrated DEF Decoded, decodeStrict
  <2>2. CASE doc.version < 5
    <3>1. Decoded(doc).joinUrl = JoinURL(doc)
      BY <2>1, <2>2, After5
    <3>2. <<doc.ip, ServerPort(doc)>> # Absent \/ ~NamesHost(doc)
      <4>1. NamesHost(doc) => <<doc.ip, ServerPort(doc)>> \in Targets
        BY DEF NamesHost, ServerPort, Targets, Documents, ConfigAssumption
      <4> QED
        BY <4>1 DEF ConfigAssumption
    <3> QED
      BY <2>2, <3>1, <3>2 DEF Meant, JoinURL, Or
  <2>3. CASE ~(doc.version < 5)
    <3>1. Decoded(doc).joinUrl = doc.joinUrl /\ doc.ip = Absent
      BY <1>1, <2>1, <2>3, After5
    <3> QED
      BY <3>1 DEF Meant, NamesHost, Or
  <2> QED
    BY <2>2, <2>3
<1> QED
  BY <1>2, <1>3

\* A file of a version's own keys is decoded, if it names a server's address where
\* its version had one.
LEMMA LegalIsDecoded ==
  ASSUME ConfigAssumption, NEW doc \in Documents, doc.version > 0, Legal(doc),
         doc.version >= 5 \/ NamesHost(doc)
  PROVE  decodeStrict(Decoded(doc))
<1>1. doc.version \in Nat
  BY VersionsAreNumbers
<1>2. doc.keys \subseteq Dropped(doc.version)
  BY <1>1 DEF Legal, Dropped, Obsolete
<1>3. doc.version >= 5 => doc.ip = Absent /\ doc.port = Absent /\ doc.autoFollow = Absent
  BY <1>1 DEF Legal
<1>4. CASE configMigrations(doc).notes = {}
  <2>1. doc.keys = {}
    BY <1>2, <1>4, Migrated
  <2>2. doc.version >= 5
    <3>1. To5(doc).notes = {}
      BY <1>4, Migrated
    <3>2. doc.version < 5 /\ NamesHost(doc) => To5(doc).notes # {}
      BY After5
    <3> QED
      BY <1>1, <3>1, <3>2
  <2> QED
    BY <1>3, <1>4, <2>1, <2>2 DEF Decoded, decodeStrict
<1>5. CASE configMigrations(doc).notes # {}
  <2>1. configMigrations(doc).doc.keys = {}
    BY <1>2, Migrated
  <2>2. /\ To5(doc).doc.ip = Absent /\ To5(doc).doc.port = Absent
        /\ To5(doc).doc.autoFollow = Absent
    <3>1. /\ To5(doc).doc.ip = IF doc.version < 5 THEN Absent ELSE doc.ip
          /\ To5(doc).doc.port = IF doc.version < 5 THEN Absent ELSE doc.port
          /\ To5(doc).doc.autoFollow = IF doc.version < 5 THEN Absent ELSE doc.autoFollow
      BY After5
    <3> QED
      BY <1>1, <1>3, <3>1
  <2> QED
    BY <1>5, <2>1, <2>2, Migrated DEF Decoded, decodeStrict
<1> QED
  BY <1>4, <1>5
-----------------------------------------------------------------------------
(* The states. *)

\* What the file means is what its last edit meant, or the one that will be written.
FileInv ==
  /\ file # NoFile => wanted = Meant(file)
  /\ file = NoFile => wanted = ExampleTarget

\* What the last load returned is what the next one finds.
LoadedInv ==
  result = "loaded" =>
    /\ file # NoFile /\ decodeStrict(Decoded(file))
    /\ cfg = migrate(Configuration(Decoded(file)))
    /\ ~(cfg.joinUrl \in Targets /\ cfg.joinUrl[1] = ExampleHost)

IInv == TypeOK /\ FileInv /\ LoadedInv /\ LegalLoads

\* The default configuration can be saved.
LEMMA DefaultIsConfig == DefaultConfigFile \in Configs
<1>1. ExampleTarget \in Targets
  BY DEF ExampleTarget, Targets
<1>2. CurrentConfigVersion >= CurrentConfigVersion
  BY DEF CurrentConfigVersion
<1> QED
  BY <1>1, <1>2, ConfigsAre DEF DefaultConfigFile

\* The target a document means is one that can be dialled, or none.
LEMMA MeantIs ==
  ASSUME ConfigAssumption, NEW doc \in Documents
  PROVE  Meant(doc) \in Targets \cup {Blank}
<1>1. ExampleTarget \in Targets
  BY DEF ExampleTarget, Targets
<1>2. NamesHost(doc) => <<doc.ip, ServerPort(doc)>> \in Targets
  BY DEF NamesHost, ServerPort, Targets, Documents, ConfigAssumption
<1>3. doc.joinUrl \in Targets \cup {Blank, Absent}
  BY DEF Documents
<1> QED
  BY <1>1, <1>2, <1>3 DEF Meant, Or

\* What a configuration is, field by field.
LEMMA ConfigFields ==
  ASSUME ConfigAssumption, NEW c \in Configs
  PROVE  /\ c.version \in Versions \cup {CurrentConfigVersion}
         /\ c.version >= CurrentConfigVersion
         /\ c.joinUrl \in Targets \cup {Blank}
         /\ c.autoFriend \in BOOLEAN /\ c.override \in BOOLEAN /\ ~c.low
  BY DEF Configs

\* A load that decodes the file leaves it or saves the migrated one, and returns
\* what it made of it unless its target is the example.
LEMMA LoadIs ==
  ASSUME ConfigAssumption, IInv, Load
  PROVE  LET new == migrate(Configuration(Decoded(file))) IN
         /\ file # NoFile /\ decodeStrict(Decoded(file)) /\ wanted' = wanted
         /\ new \in Configs /\ new.joinUrl = Meant(file)
         /\ file' = file \/ file' = encodeConfig(new)
         /\ \/ /\ result' = "example host" /\ cfg' = NoConfig /\ notes' = {}
               /\ new.joinUrl \in Targets /\ new.joinUrl[1] = ExampleHost
            \/ /\ result' = "loaded" /\ cfg' = new /\ notes' \subseteq Noted
               /\ ~(new.joinUrl \in Targets /\ new.joinUrl[1] = ExampleHost)
<1> DEFINE old == Configuration(Decoded(file))
           new == migrate(old)
           said == configMigrations(file).notes \cup (IF old.low THEN {"interval"} ELSE {})
<1>1. file # NoFile /\ decodeStrict(Decoded(file)) /\ wanted' = wanted
  BY DEF Load
<1>2. file \in Documents
  BY <1>1 DEF IInv, TypeOK
<1>3. new \in Configs /\ new.joinUrl = Meant(file)
  BY <1>1, <1>2, DecodedIsDocument, DecodedMeans, ConfigurationIs
<1>4. said \subseteq Noted /\ said \cup {"unsaved"} \subseteq Noted
  BY <1>2, Migrated DEF Noted
<1>5. \E s \in {said, said \cup {"unsaved"}} :
        Return(new, s) /\ (file' = file \/ file' = encodeConfig(new))
  BY DEF Load, Saved
<1> HIDE DEF old, new, said
<1>6. PICK s \in {said, said \cup {"unsaved"}} :
        Return(new, s) /\ (file' = file \/ file' = encodeConfig(new))
  BY <1>5
<1>7. \/ /\ result' = "example host" /\ cfg' = NoConfig /\ notes' = {}
         /\ new.joinUrl \in Targets /\ new.joinUrl[1] = ExampleHost
      \/ /\ result' = "loaded" /\ cfg' = new /\ notes' \subseteq Noted
         /\ ~(new.joinUrl \in Targets /\ new.joinUrl[1] = ExampleHost)
  BY <1>4, <1>6 DEF Return, Fails
<1> QED
  BY <1>1, <1>3, <1>6, <1>7 DEF new, old

\* After a load that is not refused, the next finds the same.
LEMMA LoadedAgain ==
  ASSUME ConfigAssumption, IInv, Load
  PROVE  LET new == migrate(Configuration(Decoded(file))) IN
         /\ file' # NoFile /\ decodeStrict(Decoded(file')) /\ file' \in Documents
         /\ migrate(Configuration(Decoded(file'))) = new
         /\ Meant(file') = Meant(file)
         /\ file' # file => file' = encodeConfig(new)
<1> DEFINE new == migrate(Configuration(Decoded(file)))
<1>1. /\ file # NoFile /\ decodeStrict(Decoded(file))
      /\ new \in Configs /\ new.joinUrl = Meant(file)
      /\ file' = file \/ file' = encodeConfig(new)
  BY LoadIs
<1>2. file \in Documents
  BY <1>1 DEF IInv, TypeOK
<1>3. CASE file' = file
  BY <1>1, <1>2, <1>3
<1>4. CASE file' = encodeConfig(new)
  <2> HIDE DEF new
  <2>1. /\ encodeConfig(new) \in Documents /\ encodeConfig(new) # NoFile
        /\ Decoded(encodeConfig(new)) = encodeConfig(new) /\ decodeStrict(encodeConfig(new))
        /\ migrate(Configuration(encodeConfig(new))) = new
        /\ Meant(encodeConfig(new)) = new.joinUrl
    BY <1>1, Encoded
  <2> QED
    BY <1>1, <1>4, <2>1 DEF new
<1> QED
  BY <1>1, <1>3, <1>4

\* The steps one by one.
LEMMA Steps ==
  ASSUME [Next]_vars
  PROVE
    \/ Create
    \/ LoadUnreadable
    \/ LoadUnknownKey
    \/ Load
    \/ \E u \in Targets : SetTarget(u)
    \/ SetOverride
    \/ UNCHANGED vars
  BY DEF Next, LoadConfigFile

\* An edit keeps a document a document, and changes its target where it says so.
LEMMA TargetIsSet ==
  ASSUME ConfigAssumption, IInv, NEW u \in Targets, SetTarget(u)
  PROVE  file' \in Documents /\ Meant(file') = u
<1>1. file \in Documents /\ file' = [file EXCEPT !.joinUrl = u]
  BY DEF SetTarget, IInv, TypeOK
<1>2. file' \in Documents /\ file'.joinUrl = u
  BY <1>1 DEF Documents
<1>3. u \notin {Absent, Blank}
  BY DEF ConfigAssumption
<1> QED
  BY <1>2, <1>3 DEF Meant

(* An edit of the override leaves the file's meaning alone. *)
LEMMA OverrideIsSet ==
  ASSUME ConfigAssumption, IInv, SetOverride
  PROVE  file' \in Documents /\ Meant(file') = Meant(file)
<1>1. file \in Documents /\ file' = [file EXCEPT !.override = TRUE]
  BY DEF SetOverride, IInv, TypeOK
<1>2. /\ file' \in Documents /\ file'.joinUrl = file.joinUrl /\ file'.ip = file.ip
      /\ file'.port = file.port /\ file'.version = file.version
  BY <1>1 DEF Documents
<1> QED
  BY <1>2 DEF Meant, NamesHost, ServerPort

\* Steps keep the types.
LEMMA TypeStep == ASSUME ConfigAssumption, IInv, [Next]_vars PROVE TypeOK'
<1>i. TypeOK
  BY DEF IInv
<1>1. CASE Create
  <2>1. encodeConfig(DefaultConfigFile) \in Documents
    BY DefaultIsConfig, Encoded
  <2> QED
    BY <1>i, <1>1, <2>1 DEF Create, Fails, TypeOK
<1>2. CASE LoadUnreadable
  BY <1>i, <1>2 DEF LoadUnreadable, Fails, TypeOK
<1>3. CASE LoadUnknownKey
  BY <1>i, <1>3 DEF LoadUnknownKey, Fails, TypeOK
<1>4. CASE Load
  <2> DEFINE new == migrate(Configuration(Decoded(file)))
  <2>1. file' \in Documents
    BY <1>4, LoadedAgain
  <2>2. /\ wanted' = wanted /\ new \in Configs
        /\ \/ result' = "example host" /\ cfg' = NoConfig /\ notes' = {}
           \/ /\ result' = "loaded" /\ cfg' = new /\ notes' \subseteq Noted
              /\ ~(new.joinUrl \in Targets /\ new.joinUrl[1] = ExampleHost)
    BY <1>4, LoadIs
  <2> HIDE DEF new
  <2>3. /\ new.version \in Versions \cup {CurrentConfigVersion}
        /\ new.version >= CurrentConfigVersion /\ new.joinUrl \in Targets \cup {Blank}
        /\ new.autoFriend \in BOOLEAN /\ new.override \in BOOLEAN /\ ~new.low
    BY <2>2, ConfigFields
  <2>4. ExampleTarget \in Targets /\ ExampleTarget[1] = ExampleHost
    BY DEF ExampleTarget, Targets
  <2>5. CASE cfg' = new /\ result' = "loaded" /\ notes' \subseteq Noted /\ new.joinUrl # ExampleTarget
    BY <1>i, <2>1, <2>2, <2>3, <2>5 DEF TypeOK
  <2>6. CASE cfg' = NoConfig /\ result' = "example host" /\ notes' = {}
    BY <1>i, <2>1, <2>2, <2>6 DEF TypeOK
  <2> QED
    BY <2>2, <2>4, <2>5, <2>6
<1>5. ASSUME NEW u \in Targets, SetTarget(u) PROVE TypeOK'
  BY <1>i, <1>5, TargetIsSet DEF SetTarget, Edited, TypeOK
<1>6. CASE SetOverride
  BY <1>i, <1>6, OverrideIsSet DEF SetOverride, Edited, TypeOK
<1>7. CASE UNCHANGED vars
  BY <1>i, <1>7 DEF vars, TypeOK
<1> QED
  BY Steps, <1>1, <1>2, <1>3, <1>4, <1>5, <1>6, <1>7

\* A save keeps what the file means.
LEMMA FileStep == ASSUME ConfigAssumption, IInv, [Next]_vars PROVE FileInv'
<1>i. TypeOK /\ FileInv
  BY DEF IInv
<1>1. CASE Create
  <2>1. CASE file' = file
    BY <1>i, <1>1, <2>1 DEF Create, FileInv
  <2>2. CASE file' = encodeConfig(DefaultConfigFile)
    <3>1. Meant(file') = ExampleTarget /\ file' # NoFile
      BY <2>2, DefaultIsConfig, Encoded DEF DefaultConfigFile
    <3> QED
      BY <1>i, <1>1, <3>1 DEF Create, FileInv
  <2> QED
    BY <1>1, <2>1, <2>2 DEF Create
<1>2. CASE LoadUnreadable
  BY <1>i, <1>2 DEF LoadUnreadable, FileInv
<1>3. CASE LoadUnknownKey
  BY <1>i, <1>3 DEF LoadUnknownKey, FileInv
<1>4. CASE Load
  <2>1. /\ file # NoFile /\ file' # NoFile /\ wanted' = wanted
        /\ Meant(file') = Meant(file)
    BY <1>4, LoadIs, LoadedAgain
  <2> QED
    BY <1>i, <2>1 DEF FileInv
<1>5. ASSUME NEW u \in Targets, SetTarget(u) PROVE FileInv'
  <2>1. file' # NoFile
    BY <1>5, TargetIsSet DEF ConfigAssumption
  <2> QED
    BY <1>5, <2>1, TargetIsSet DEF SetTarget, FileInv
<1>6. CASE SetOverride
  <2>1. file' # NoFile
    BY <1>6, OverrideIsSet DEF ConfigAssumption
  <2> QED
    BY <1>i, <1>6, <2>1, OverrideIsSet DEF SetOverride, FileInv
<1>7. CASE UNCHANGED vars
  BY <1>i, <1>7 DEF vars, FileInv
<1> QED
  BY Steps, <1>1, <1>2, <1>3, <1>4, <1>5, <1>6, <1>7

\* What was returned stays what the next load finds, until the file is edited.
LEMMA LoadedStep == ASSUME ConfigAssumption, IInv, [Next]_vars PROVE LoadedInv'
<1>1. CASE Create
  BY <1>1 DEF Create, Fails, LoadedInv
<1>2. CASE LoadUnreadable
  BY <1>2 DEF LoadUnreadable, Fails, LoadedInv
<1>3. CASE LoadUnknownKey
  BY <1>3 DEF LoadUnknownKey, Fails, LoadedInv
<1>4. CASE Load
  <2> DEFINE new == migrate(Configuration(Decoded(file)))
  <2>1. /\ file' # NoFile /\ decodeStrict(Decoded(file'))
        /\ migrate(Configuration(Decoded(file'))) = new
    BY <1>4, LoadedAgain
  <2>2. result' = "loaded" =>
          cfg' = new /\ ~(new.joinUrl \in Targets /\ new.joinUrl[1] = ExampleHost)
    BY <1>4, LoadIs
  <2> HIDE DEF new
  <2> QED
    BY <2>1, <2>2 DEF LoadedInv
<1>5. ASSUME NEW u \in Targets, SetTarget(u) PROVE LoadedInv'
  BY <1>5 DEF SetTarget, Edited, LoadedInv
<1>6. CASE SetOverride
  BY <1>6 DEF SetOverride, Edited, LoadedInv
<1>7. CASE UNCHANGED vars
  BY <1>7 DEF vars, LoadedInv, IInv
<1> QED
  BY Steps, <1>1, <1>2, <1>3, <1>4, <1>5, <1>6, <1>7

\* Only a file that is not decoded is refused for a key.
LEMMA LegalStep == ASSUME ConfigAssumption, IInv, [Next]_vars PROVE LegalLoads'
<1>1. CASE Create
  BY <1>1 DEF Create, Fails, LegalLoads
<1>2. CASE LoadUnreadable
  BY <1>2 DEF LoadUnreadable, Fails, LegalLoads
<1>3. CASE LoadUnknownKey
  <2>1. file \in Documents /\ file' = file /\ ~decodeStrict(Decoded(file))
    BY <1>3 DEF LoadUnknownKey, IInv, TypeOK
  <2>2. file.version > 0 /\ Legal(file) => ~(file.version >= 5 \/ NamesHost(file))
    BY <2>1, LegalIsDecoded
  <2>3. file.version \in Nat
    BY <2>1, VersionsAreNumbers
  <2>4. file.version > 0 /\ Legal(file) => file.version < 5 /\ ~NamesHost(file)
    BY <2>2, <2>3
  <2>5. file'.version > 0 /\ Legal(file') => file'.version < 5 /\ ~NamesHost(file')
    BY <2>1, <2>4
  <2> QED
    BY <2>5, Zenon DEF LegalLoads
<1>4. CASE Load
  BY <1>4, LoadIs DEF LegalLoads
<1>5. ASSUME NEW u \in Targets, SetTarget(u) PROVE LegalLoads'
  BY <1>5 DEF SetTarget, Edited, LegalLoads
<1>6. CASE SetOverride
  BY <1>6 DEF SetOverride, Edited, LegalLoads
<1>7. CASE UNCHANGED vars
  BY <1>7 DEF vars, LegalLoads, IInv
<1> QED
  BY Steps, <1>1, <1>2, <1>3, <1>4, <1>5, <1>6, <1>7

-----------------------------------------------------------------------------
(* The theorems. *)

\* The parts hold at first, and every step keeps them.
THEOREM Inductive == Spec => []IInv
<1> USE ConfigAssumption
<1>1. Init => IInv
  <2> SUFFICES ASSUME Init PROVE IInv
    OBVIOUS
  <2>1. ExampleTarget \in Targets
    BY DEF ExampleTarget, Targets
  <2>2. CASE file \in Files /\ wanted = Meant(file)
    <3>1. file \in Documents
      BY <2>2 DEF Files
    <3>2. file # NoFile /\ wanted \in Targets \cup {Blank}
      BY <2>2, <3>1, MeantIs DEF ConfigAssumption
    <3> QED
      BY <2>2, <3>1, <3>2 DEF Init, IInv, TypeOK, FileInv, LoadedInv, LegalLoads
  <2>3. CASE file = NoFile /\ wanted = ExampleTarget
    BY <2>1, <2>3 DEF Init, IInv, TypeOK, FileInv, LoadedInv, LegalLoads
  <2> QED
    BY <2>2, <2>3 DEF Init
<1>2. IInv /\ [Next]_vars => IInv'
  BY TypeStep, FileStep, LoadedStep, LegalStep DEF IInv
<1> QED
  BY <1>1, <1>2, PTL DEF Spec

\* What the loads leave and return has its type: a configuration of the current
\* version or a later one, in range, that never dials the example.
THEOREM TypeIsKept == Spec => []TypeOK
<1>1. IInv => TypeOK
  BY DEF IInv
<1> QED
  BY <1>1, Inductive, PTL

\* An older file with a server's address is loaded, and joins are sent to the target
\* its operator or the panel meant, after any number of loads and edits, whichever
\* hosts, ports and versions there are (config_file.go:258).
THEOREM OlderFilesLoad == Spec => []OlderLoads
<1>1. IInv => OlderLoads
  <2> SUFFICES ASSUME IInv PROVE OlderLoads
    OBVIOUS
  <2>1. ASSUME result = "loaded" PROVE cfg.joinUrl = wanted
    <3>1. /\ file \in Documents /\ file # NoFile /\ decodeStrict(Decoded(file))
          /\ cfg = migrate(Configuration(Decoded(file)))
      BY <2>1 DEF IInv, LoadedInv, TypeOK
    <3>2. cfg.joinUrl = Meant(file)
      BY <3>1, ConfigAssumption, DecodedIsDocument, DecodedMeans, ConfigurationIs
    <3> QED
      BY <3>1, <3>2 DEF IInv, FileInv
  <2> QED
    BY <2>1 DEF IInv, OlderLoads, TargetIsKept
<1> QED
  BY <1>1, Inductive, PTL

\* A load finds what the last one found, saved or not, and what it has rewritten it
\* does not rewrite again (config_file.go:239).
THEOREM LoadsAreStable == Spec => LoadIsStable
<1> USE ConfigAssumption
<1> DEFINE Same ==
      result = "loaded" /\ LoadConfigFile /\ result' # "unreadable"
      => result' = "loaded" /\ cfg' = cfg
           Quiet ==
      LoadConfigFile /\ file' # file /\ file' # NoFile
      => /\ configMigrations(file').notes = {} /\ decodeStrict(file')
         /\ Configuration(file') = migrate(Configuration(file'))
<1>1. IInv /\ [Next]_vars => [Same]_vars
  <2> SUFFICES ASSUME IInv, result = "loaded", LoadConfigFile, result' # "unreadable"
               PROVE  result' = "loaded" /\ cfg' = cfg
    OBVIOUS
  <2>1. /\ file # NoFile /\ decodeStrict(Decoded(file))
        /\ cfg = migrate(Configuration(Decoded(file)))
        /\ ~(cfg.joinUrl \in Targets /\ cfg.joinUrl[1] = ExampleHost)
    BY DEF IInv, LoadedInv
  <2>2. Load
    BY <2>1 DEF LoadConfigFile, Create, LoadUnreadable, LoadUnknownKey, Fails
  <2> QED
    BY <2>1, <2>2, LoadIs
<1>2. IInv /\ [Next]_vars => [Quiet]_vars
  <2> SUFFICES ASSUME IInv, LoadConfigFile, file' # file, file' # NoFile
               PROVE  /\ configMigrations(file').notes = {} /\ decodeStrict(file')
                      /\ Configuration(file') = migrate(Configuration(file'))
    OBVIOUS
  <2>1. \E c \in Configs : file' = encodeConfig(c)
    <3>1. CASE Create
      BY <3>1, DefaultIsConfig DEF Create
    <3>2. CASE Load
      BY <3>2, LoadIs, LoadedAgain
    <3> QED
      BY <3>1, <3>2 DEF LoadConfigFile, LoadUnreadable, LoadUnknownKey
  <2>2. PICK c \in Configs : file' = encodeConfig(c)
    BY <2>1
  <2> QED
    BY <2>2, Encoded
<1> HIDE DEF Same, Quiet
<1>3. Spec => [][Same]_vars /\ [][Quiet]_vars
  BY <1>1, <1>2, Inductive, PTL DEF Spec
<1> QED
  BY <1>3 DEF LoadIsStable, StartsTheSame, QuietOnceRewritten, Same, Quiet
=============================================================================
