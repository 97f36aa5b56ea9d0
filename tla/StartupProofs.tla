---------------------------- MODULE StartupProofs ---------------------------
(***************************************************************************)
(* What module Startup promises for any number of channels and any         *)
(* timeouts: settings are what the order of precedence says (LayersMerged),*)
(* nothing stops the pings of a pipeline that serves (RestartsKeepPings),  *)
(* and all channels together are waited for no longer than                 *)
(* process_start_timeout_s (OneDeadline).                                  *)
(***************************************************************************)
EXTENDS Startup, TLAPS

-----------------------------------------------------------------------------
(* Settings: what merging layers comes to. *)

(* A layer: what Files says without counting.                              *)
IsLayer(l) ==
  /\ DOMAIN l \subseteq Sections
  /\ l = [s \in DOMAIN l |-> l[s]]
  /\ \A s \in DOMAIN l : l[s] \in Dicts(s) \cup {Null}

LEMMA FilesAreLayers == ASSUME NEW l \in Files PROVE IsLayer(l)
BY DEF Files, IsLayer

LEMMA DictIs ==
  ASSUME NEW s \in Sections, NEW d
  PROVE  d \in Dicts(s) <=> /\ DOMAIN d \subseteq Fields[s]
                            /\ d \in [DOMAIN d -> BOOLEAN]
<1>1. ASSUME d \in Dicts(s)
      PROVE  DOMAIN d \subseteq Fields[s] /\ d \in [DOMAIN d -> BOOLEAN]
  BY <1>1 DEF Dicts
<1>2. ASSUME DOMAIN d \subseteq Fields[s], d \in [DOMAIN d -> BOOLEAN]
      PROVE  d \in Dicts(s)
  BY <1>2 DEF Dicts
<1> QED BY <1>1, <1>2

(* So is what an environment says. *)
LEMMA SpelledIsLayer ==
  ASSUME NEW env, env \in [DOMAIN env -> BOOLEAN], NEW p
  PROVE  IsLayer(Spelled(p, env))
<1> DEFINE Var(s, f) == [prefix |-> p, section |-> s, field |-> f]
           Named(s) == {f \in Fields[s] : Var(s, f) \in DOMAIN env}
           Said(s) == [f \in Named(s) |-> env[Var(s, f)]]
           Here == {t \in Sections : Named(t) # {}}
           l == [s \in Here |-> Said(s)]
<1>1. Spelled(p, env) = l
  BY DEF Spelled
<1>2. ASSUME NEW s \in Sections PROVE Said(s) \in Dicts(s)
  <2>1. \A f \in Named(s) : env[Var(s, f)] \in BOOLEAN
    <3> HIDE DEF Var
    <3> QED OBVIOUS
  <2>2. /\ DOMAIN Said(s) = Named(s) /\ Named(s) \subseteq Fields[s]
        /\ Said(s) \in [Named(s) -> BOOLEAN]
    BY <2>1
  <2> HIDE DEF Said, Named
  <2> QED BY <2>2, DictIs
<1> HIDE DEF Said, Named
<1>3. /\ DOMAIN l = Here /\ Here \subseteq Sections
      /\ l = [s \in Here |-> l[s]]
      /\ \A s \in Here : l[s] = Said(s)
  OBVIOUS
<1> HIDE DEF l, Here
<1> QED BY <1>1, <1>2, <1>3 DEF IsLayer

LEMMA EnvironmentsAre ==
  /\ \A env \in Environments : env \in [DOMAIN env -> BOOLEAN]
  /\ <<>> \in [DOMAIN <<>> -> BOOLEAN]
BY DEF Environments

LEMMA OverDicts ==
  ASSUME NEW s \in Sections, NEW d \in Dicts(s), NEW e \in Dicts(s)
  PROVE  Over(d, e) \in Dicts(s)
<1>1. /\ DOMAIN d \subseteq Fields[s] /\ d \in [DOMAIN d -> BOOLEAN]
      /\ DOMAIN e \subseteq Fields[s] /\ e \in [DOMAIN e -> BOOLEAN]
  BY DictIs
<1>2. Over(d, e) \in [DOMAIN d \cup DOMAIN e -> BOOLEAN]
  BY <1>1 DEF Over
<1>3. DOMAIN Over(d, e) \subseteq Fields[s]
  BY <1>1, <1>2
<1> QED BY <1>2, <1>3, DictIs

(* What a layer says of a section and of a field. *)
Empties(l, s) == s \in DOMAIN l /\ l[s] = Null
Names(l, s, f) == s \in DOMAIN l /\ l[s] # Null /\ f \in DOMAIN l[s]

LEMMA MergeIsLayer ==
  ASSUME NEW b, IsLayer(b), NEW o, IsLayer(o)
  PROVE  /\ IsLayer(DeepMerge(b, o))
         /\ DOMAIN DeepMerge(b, o) = DOMAIN b \cup DOMAIN o
         /\ \A s : Empties(DeepMerge(b, o), s)
                   <=> \/ Empties(o, s)
                       \/ s \notin DOMAIN o /\ Empties(b, s)
<1> DEFINE m == DeepMerge(b, o)
<1>1. /\ DOMAIN m = DOMAIN b \cup DOMAIN o
      /\ m = [s \in DOMAIN m |-> m[s]]
      /\ \A s \in DOMAIN m :
           m[s] = IF /\ s \in DOMAIN b /\ s \in DOMAIN o
                     /\ b[s] # Null /\ o[s] # Null
                  THEN Over(o[s], b[s])
                  ELSE IF s \in DOMAIN o THEN o[s] ELSE b[s]
  BY DEF DeepMerge, Over
<1> HIDE DEF m
<1>2. ASSUME NEW s \in DOMAIN m
      PROVE  /\ s \in Sections
             /\ m[s] \in Dicts(s) \cup {Null}
             /\ m[s] = Null <=> IF s \in DOMAIN o THEN o[s] = Null
                                ELSE b[s] = Null
  <2>1. s \in Sections /\ Null \notin Dicts(s)
    BY <1>1, SettingsAssumption DEF IsLayer
  <2>2. /\ s \in DOMAIN b => b[s] \in Dicts(s) \cup {Null}
        /\ s \in DOMAIN o => o[s] \in Dicts(s) \cup {Null}
    BY DEF IsLayer
  <2>3. CASE s \in DOMAIN b /\ s \in DOMAIN o /\ b[s] # Null /\ o[s] # Null
    <3>1. Over(o[s], b[s]) \in Dicts(s)
      BY <2>1, <2>2, <2>3, OverDicts
    <3> QED BY <1>1, <2>1, <2>3, <3>1
  <2>4. CASE ~(s \in DOMAIN b /\ s \in DOMAIN o /\ b[s] # Null /\ o[s] # Null)
    BY <1>1, <2>1, <2>2, <2>4
  <2> QED BY <2>1, <2>3, <2>4
<1>3. IsLayer(m)
  BY <1>1, <1>2 DEF IsLayer
<1>4. \A s : Empties(m, s) <=> \/ Empties(o, s)
                               \/ s \notin DOMAIN o /\ Empties(b, s)
  BY <1>1, <1>2 DEF Empties
<1> QED BY <1>1, <1>3, <1>4 DEF m

LEMMA MergeNames ==
  ASSUME NEW b, IsLayer(b), NEW o, IsLayer(o), NEW s, NEW f
  PROVE  /\ Names(DeepMerge(b, o), s, f)
            <=> \/ Names(o, s, f)
                \/ Names(b, s, f) /\ ~Empties(o, s)
         /\ Names(DeepMerge(b, o), s, f) =>
              DeepMerge(b, o)[s][f] = IF Names(o, s, f) THEN o[s][f]
                                      ELSE b[s][f]
<1> DEFINE m == DeepMerge(b, o)
<1>1. /\ DOMAIN m = DOMAIN b \cup DOMAIN o
      /\ s \in DOMAIN m =>
           m[s] = IF /\ s \in DOMAIN b /\ s \in DOMAIN o
                     /\ b[s] # Null /\ o[s] # Null
                  THEN Over(o[s], b[s])
                  ELSE IF s \in DOMAIN o THEN o[s] ELSE b[s]
  BY DEF DeepMerge, Over
<1>2. Empties(m, s) <=> \/ Empties(o, s)
                        \/ s \notin DOMAIN o /\ Empties(b, s)
  BY MergeIsLayer
<1> HIDE DEF m
<1>3. CASE s \in DOMAIN b /\ s \in DOMAIN o /\ b[s] # Null /\ o[s] # Null
  <2>1. m[s] = Over(o[s], b[s]) /\ m[s] # Null
    BY <1>1, <1>2, <1>3 DEF Empties
  <2>2. DOMAIN Over(o[s], b[s]) = DOMAIN o[s] \cup DOMAIN b[s]
    BY DEF Over
  <2>3. f \in DOMAIN Over(o[s], b[s]) =>
          Over(o[s], b[s])[f] = IF f \in DOMAIN o[s] THEN o[s][f] ELSE b[s][f]
    BY DEF Over
  <2> QED BY <1>1, <1>3, <2>1, <2>2, <2>3 DEF Names, Empties, m
<1>4. CASE ~(s \in DOMAIN b /\ s \in DOMAIN o /\ b[s] # Null /\ o[s] # Null)
  BY <1>1, <1>2, <1>4 DEF Names, Empties, m
<1> QED BY <1>3, <1>4

(* The last of up to three layers. *)
LEMMA LastOfThree ==
  ASSUME NEW I, I \subseteq 1..3, I # {}
  PROVE  Last(I) = IF 3 \in I THEN 3 ELSE IF 2 \in I THEN 2 ELSE 1
<1> DEFINE n == IF 3 \in I THEN 3 ELSE IF 2 \in I THEN 2 ELSE 1
<1>1. n \in I /\ \A j \in I : j <= n
  <2>1. n \in I
    <3>1. PICK i \in I : i \in 1..3
      OBVIOUS
    <3>2. i = 1 \/ i = 2 \/ i = 3
      BY <3>1
    <3> QED BY <3>2
  <2>2. ASSUME NEW j \in I PROVE j <= n
    <3>1. j \in 1..3
      OBVIOUS
    <3>2. CASE 3 \in I
      BY <3>1, <3>2
    <3>3. CASE 3 \notin I /\ 2 \in I
      BY <3>1, <3>3
    <3>4. CASE 3 \notin I /\ 2 \notin I
      BY <3>1, <3>4
    <3> QED BY <3>2, <3>3, <3>4
  <2> QED BY <2>1, <2>2
<1>2. \A k \in I : (\A j \in I : j <= k) => k = n
  BY <1>1
<1> HIDE DEF n
<1>3. Last(I) \in I /\ \A j \in I : j <= Last(I)
  BY <1>1 DEF Last
<1> QED BY <1>2, <1>3 DEF n

(* Three layers, as main() loads them. *)
IsStack(ls) ==
  /\ ls = <<ls[1], ls[2], ls[3]>>
  /\ IsLayer(ls[1]) /\ IsLayer(ls[2]) /\ IsLayer(ls[3])

LEMMA MergedStack ==
  ASSUME NEW ls, IsStack(ls)
  PROVE  /\ IsLayer(Merged(ls))
         /\ DOMAIN Merged(ls)
              = DOMAIN ls[1] \cup DOMAIN ls[2] \cup DOMAIN ls[3]
         /\ \A s : Empties(Merged(ls), s) <=> LeftEmpty(ls, s)
<1> DEFINE a == ls[1]
           b == ls[2]
           c == ls[3]
           files == DeepMerge(a, b)
           m == DeepMerge(files, c)
<1>1. IsLayer(a) /\ IsLayer(b) /\ IsLayer(c) /\ ls = <<a, b, c>>
  BY DEF IsStack
<1>2. m = Merged(ls)
  BY DEF Merged
<1> HIDE DEF a, b, c
<1>3. /\ 1..Len(ls) = {1, 2, 3} /\ 1..3 = {1, 2, 3}
      /\ ls[1] = a /\ ls[2] = b /\ ls[3] = c
  BY <1>1
<1>4. /\ IsLayer(files) /\ DOMAIN files = DOMAIN a \cup DOMAIN b
      /\ \A s : Empties(files, s) <=> \/ Empties(b, s)
                                      \/ s \notin DOMAIN b /\ Empties(a, s)
  BY <1>1, MergeIsLayer
<1> HIDE DEF files
<1>5. /\ IsLayer(m) /\ DOMAIN m = DOMAIN files \cup DOMAIN c
      /\ \A s : Empties(m, s) <=> \/ Empties(c, s)
                                  \/ s \notin DOMAIN c /\ Empties(files, s)
  BY <1>1, <1>4, MergeIsLayer
<1> HIDE DEF m
<1>6. ASSUME NEW s PROVE Empties(m, s) <=> LeftEmpty(ls, s)
  <2> DEFINE Says == {i \in 1..Len(ls) : s \in DOMAIN ls[i]}
  <2>1. /\ Says \subseteq 1..3
        /\ 1 \in Says <=> s \in DOMAIN a
        /\ 2 \in Says <=> s \in DOMAIN b
        /\ 3 \in Says <=> s \in DOMAIN c
    BY <1>3
  <2>2. LeftEmpty(ls, s) <=> Says # {} /\ ls[Last(Says)][s] = Null
    BY DEF LeftEmpty
  <2> HIDE DEF Says
  <2>3. Says # {} => Last(Says) = IF 3 \in Says THEN 3
                                  ELSE IF 2 \in Says THEN 2 ELSE 1
    BY <2>1, LastOfThree
  <2>4. Says # {} <=> s \in DOMAIN a \/ s \in DOMAIN b \/ s \in DOMAIN c
    BY <1>3, <2>1
  <2> QED BY <1>3, <1>4, <1>5, <2>1, <2>2, <2>3, <2>4 DEF Empties
<1> QED BY <1>2, <1>3, <1>4, <1>5, <1>6

(* A field that no layer leaves without a section has the value of the     *)
(* last layer that names it.                                               *)
LEMMA MergedField ==
  ASSUME NEW ls, IsStack(ls), NEW s, NEW f, ~LeftEmpty(ls, s)
  PROVE  Layered(ls, s, f) = IF Names(Merged(ls), s, f) THEN Merged(ls)[s][f]
                             ELSE CodeDefaults[s][f]
<1> DEFINE a == ls[1]
           b == ls[2]
           c == ls[3]
           files == DeepMerge(a, b)
           m == DeepMerge(files, c)
<1>1. IsLayer(a) /\ IsLayer(b) /\ IsLayer(c) /\ ls = <<a, b, c>>
  BY DEF IsStack
<1>2. m = Merged(ls)
  BY DEF Merged
<1>0. ~Empties(m, s)
  BY <1>2, MergedStack
<1> HIDE DEF a, b, c
<1>3. /\ 1..Len(ls) = {1, 2, 3} /\ 1..3 = {1, 2, 3}
      /\ ls[1] = a /\ ls[2] = b /\ ls[3] = c
  BY <1>1
<1>4. /\ IsLayer(files) /\ DOMAIN files = DOMAIN a \cup DOMAIN b
      /\ Empties(files, s) <=> \/ Empties(b, s)
                               \/ s \notin DOMAIN b /\ Empties(a, s)
  BY <1>1, MergeIsLayer
<1>5. /\ Names(files, s, f) <=> \/ Names(b, s, f)
                                \/ Names(a, s, f) /\ ~Empties(b, s)
      /\ Names(files, s, f) =>
           files[s][f] = IF Names(b, s, f) THEN b[s][f] ELSE a[s][f]
  BY <1>1, MergeNames
<1> HIDE DEF files
<1>6. Empties(m, s) <=> \/ Empties(c, s)
                        \/ s \notin DOMAIN c /\ Empties(files, s)
  BY <1>1, <1>4, MergeIsLayer
<1>7. /\ Names(m, s, f) <=> \/ Names(c, s, f)
                            \/ Names(files, s, f) /\ ~Empties(c, s)
      /\ Names(m, s, f) =>
           m[s][f] = IF Names(c, s, f) THEN c[s][f] ELSE files[s][f]
  BY <1>1, <1>4, MergeNames
<1> HIDE DEF m
<1> DEFINE Says == {i \in 1..Len(ls) : s \in DOMAIN ls[i]}
           Empty == {i \in Says : ls[i][s] = Null}
           Naming == {i \in Says \ Empty : /\ f \in DOMAIN ls[i][s]
                                           /\ Empty # {} => i > Last(Empty)}
<1>8. Layered(ls, s, f) = IF Naming = {} THEN CodeDefaults[s][f]
                          ELSE ls[Last(Naming)][s][f]
  BY DEF Layered
<1>9. /\ Empty \subseteq 1..3
      /\ 1 \in Empty <=> Empties(a, s)
      /\ 2 \in Empty <=> Empties(b, s)
      /\ 3 \in Empty <=> Empties(c, s)
  BY <1>3 DEF Empties
<1>10. ASSUME NEW i
       PROVE  i \in Naming <=> /\ i \in {1, 2, 3} /\ Names(ls[i], s, f)
                               /\ Empty # {} => i > Last(Empty)
  BY <1>3 DEF Names
<1> HIDE DEF Says, Empty, Naming
<1>11. Empty # {} => Last(Empty) = IF 3 \in Empty THEN 3
                                   ELSE IF 2 \in Empty THEN 2 ELSE 1
  BY <1>9, LastOfThree
<1>12. Empty # {} <=> Empties(a, s) \/ Empties(b, s) \/ Empties(c, s)
  BY <1>3, <1>9
<1>13. ~Empties(c, s) /\ (Empties(b, s) => s \in DOMAIN c)
  BY <1>0, <1>4, <1>6
<1>14. /\ 3 \in Naming <=> Names(c, s, f)
       /\ 2 \in Naming <=> Names(b, s, f)
       /\ 1 \in Naming <=> Names(a, s, f) /\ ~Empties(b, s)
  <2>1. Names(c, s, f) => ~Empties(c, s)
    BY DEF Names, Empties
  <2>2. Names(b, s, f) => ~Empties(b, s)
    BY DEF Names, Empties
  <2>3. Names(a, s, f) => ~Empties(a, s)
    BY DEF Names, Empties
  <2> QED BY <1>3, <1>9, <1>10, <1>11, <1>12, <1>13, <2>1, <2>2, <2>3
<1>15. Naming \subseteq 1..3
  BY <1>3, <1>10
<1>16. Naming # {} => Last(Naming) = IF 3 \in Naming THEN 3
                                     ELSE IF 2 \in Naming THEN 2 ELSE 1
  BY <1>15, LastOfThree
<1>17. Naming # {} <=> Names(m, s, f)
  BY <1>3, <1>5, <1>7, <1>13, <1>14, <1>15
<1> QED BY <1>2, <1>3, <1>5, <1>7, <1>8, <1>13, <1>14, <1>16, <1>17

(* The order of precedence, for any three layers: with or without          *)
(* sections that are left empty, and with validation.                      *)
LEMMA LoadIsPromised ==
  ASSUME NEW ls, IsStack(ls)
  PROVE  Load(ls) = Promised(ls)
<1> DEFINE m == Merged(ls)
           loaded == [s \in Sections |->
                        IF s \in DOMAIN m THEN Over(m[s], CodeDefaults[s])
                        ELSE CodeDefaults[s]]
           fields == [s \in Sections |->
                        [f \in Fields[s] |-> Layered(ls, s, f)]]
           Empty == \E s \in DOMAIN m : m[s] = Null
<1>1. IsLayer(m) /\ \A s : Empties(m, s) <=> LeftEmpty(ls, s)
  BY MergedStack
<1>2. Load(ls) = IF Empty THEN Invalid
                 ELSE IF SoftCutBelowHardCap(loaded.vad) THEN loaded
                 ELSE Invalid
  BY DEF Load
<1>3. Promised(ls) = IF \/ \E s \in Sections : LeftEmpty(ls, s)
                        \/ ~SoftCutBelowHardCap(fields.vad)
                     THEN Invalid ELSE fields
  BY DEF Promised
<1> HIDE DEF m
<1>4. Empty <=> \E s \in Sections : LeftEmpty(ls, s)
  BY <1>1 DEF IsLayer, Empties
<1>5. ASSUME ~Empty PROVE loaded = fields
  <2> SUFFICES ASSUME NEW s \in Sections
               PROVE  (IF s \in DOMAIN m THEN Over(m[s], CodeDefaults[s])
                       ELSE CodeDefaults[s])
                      = [f \in Fields[s] |-> Layered(ls, s, f)]
    OBVIOUS
  <2>1. /\ DOMAIN CodeDefaults[s] = Fields[s]
        /\ CodeDefaults[s] = [f \in Fields[s] |-> CodeDefaults[s][f]]
    BY DEF CodeDefaults, Sections, Fields
  <2>2. \A f : Layered(ls, s, f) = IF Names(m, s, f) THEN m[s][f]
                                   ELSE CodeDefaults[s][f]
    BY <1>4, <1>5, MergedField DEF m
  <2>3. CASE s \notin DOMAIN m
    BY <2>1, <2>2, <2>3 DEF Names
  <2>4. CASE s \in DOMAIN m
    <3>1. m[s] # Null /\ DOMAIN m[s] \subseteq Fields[s]
      BY <1>1, <1>5, <2>4, DictIs DEF IsLayer
    <3>2. Over(m[s], CodeDefaults[s])
            = [f \in Fields[s] |-> IF f \in DOMAIN m[s] THEN m[s][f]
                                   ELSE CodeDefaults[s][f]]
      BY <2>1, <3>1 DEF Over
    <3> QED BY <2>2, <2>4, <3>1, <3>2 DEF Names
  <2> QED BY <2>3, <2>4
<1> HIDE DEF loaded, fields, Empty
<1> QED BY <1>2, <1>3, <1>4, <1>5

-----------------------------------------------------------------------------
(* The layers of a start: those the machine has, or, when it starts again, *)
(* the settings they came to.                                              *)
LayersInv == IsStack(Layers(sources))

(* Nothing but the supervisor makes a unit active, and with nothing wrong  *)
(* it pings on every tick.                                                 *)
PingInv ==
  fault = "none" /\ unit = "active" => supervisor /\ at = "serve" /\ since = 0

(* The time since systemd started the unit is the time waited for the      *)
(* children, which has an end.                                             *)
BootInv ==
  /\ at \in {"off", "load", "build", "start", "await", "serve"}
  /\ at = "off" <=> unit \in {"wait", "failed"}
  /\ at \in {"load", "build", "start"} => unit = "activating" /\ since = 0
  /\ at = "await" => /\ unit = "activating" /\ since = awaited
                     /\ awaited \in 0..ProcessStart
  /\ at = "serve" /\ unit = "activating" => ~supervisor

LEMMA FullDicts == \A s \in Sections : /\ CodeDefaults[s] \in Dicts(s)
                                       /\ DefaultYaml[s] \in Dicts(s)
<1> SUFFICES ASSUME NEW s \in Sections
             PROVE  /\ CodeDefaults[s] \in Dicts(s)
                    /\ DefaultYaml[s] \in Dicts(s)
  OBVIOUS
<1>1. CASE s = "vad"
  <2>1. Fields[s]
          = {"segment_limits_enabled", "soft_cut_enabled", "soft_cut_s"}
    BY <1>1 DEF Fields
  <2>2. /\ CodeDefaults[s] = [segment_limits_enabled |-> FALSE,
                              soft_cut_enabled |-> TRUE, soft_cut_s |-> TRUE]
        /\ DefaultYaml[s] = [segment_limits_enabled |-> TRUE,
                             soft_cut_enabled |-> FALSE, soft_cut_s |-> TRUE]
    BY <1>1 DEF CodeDefaults, DefaultYaml
  <2> DEFINE R == [segment_limits_enabled : BOOLEAN,
                   soft_cut_enabled : BOOLEAN, soft_cut_s : BOOLEAN]
  <2>3. CodeDefaults[s] \in R /\ DefaultYaml[s] \in R
    BY <2>2
  <2>4. \A r \in R : r \in [Fields[s] -> BOOLEAN]
    BY ONLY <2>1
  <2> HIDE DEF R
  <2>5. /\ CodeDefaults[s] \in [Fields[s] -> BOOLEAN]
        /\ DefaultYaml[s] \in [Fields[s] -> BOOLEAN]
    BY ONLY <2>3, <2>4
  <2> QED BY <2>5, DictIs
<1>2. CASE s = "reliability"
  <2>1. Fields[s] = {"enabled"}
    BY <1>2 DEF Fields
  <2>2. /\ CodeDefaults[s] = [enabled |-> TRUE]
        /\ DefaultYaml[s] = [enabled |-> TRUE]
    BY <1>2 DEF CodeDefaults, DefaultYaml
  <2> DEFINE R == [enabled : BOOLEAN]
  <2>3. CodeDefaults[s] \in R /\ DefaultYaml[s] \in R
    BY <2>2
  <2>4. \A r \in R : r \in [Fields[s] -> BOOLEAN]
    BY ONLY <2>1
  <2> HIDE DEF R
  <2>5. /\ CodeDefaults[s] \in [Fields[s] -> BOOLEAN]
        /\ DefaultYaml[s] \in [Fields[s] -> BOOLEAN]
    BY ONLY <2>3, <2>4
  <2> QED BY <2>5, DictIs
<1> QED BY <1>1, <1>2 DEF Sections, Fields

(* Settings are a layer that leaves nothing open. *)
LEMMA LoadedIsLayer ==
  ASSUME NEW ls, IsStack(ls), Load(ls) # Invalid
  PROVE  IsLayer(Load(ls))
<1> DEFINE m == Merged(ls)
           loaded == [s \in Sections |->
                        IF s \in DOMAIN m THEN Over(m[s], CodeDefaults[s])
                        ELSE CodeDefaults[s]]
<1>1. IsLayer(m)
  BY MergedStack
<1>2. Load(ls) = loaded /\ ~\E s \in DOMAIN m : m[s] = Null
  BY DEF Load
<1> HIDE DEF m
<1>3. ASSUME NEW s \in Sections PROVE loaded[s] \in Dicts(s)
  <2>1. CASE s \in DOMAIN m
    <3>1. m[s] \in Dicts(s)
      BY <1>1, <1>2, <2>1 DEF IsLayer
    <3> QED BY <2>1, <3>1, FullDicts, OverDicts
  <2>2. CASE s \notin DOMAIN m
    BY <2>2, FullDicts
  <2> QED BY <2>1, <2>2
<1>4. DOMAIN loaded = Sections /\ loaded = [s \in Sections |-> loaded[s]]
  OBVIOUS
<1> HIDE DEF loaded
<1> QED BY <1>2, <1>3, <1>4 DEF IsLayer

LEMMA PlainLayers == /\ IsLayer(<<>>) /\ IsLayer([vad |-> Null])
                     /\ IsLayer(DefaultYaml)
<1>1. IsLayer(<<>>)
  BY DEF IsLayer
<1>2. IsLayer([vad |-> Null])
  BY DEF IsLayer, Sections, Fields
<1>3. DOMAIN DefaultYaml = Sections
      /\ DefaultYaml = [s \in Sections |-> DefaultYaml[s]]
  BY DEF DefaultYaml, Sections, Fields
<1>4. IsLayer(DefaultYaml)
  BY <1>3, FullDicts DEF IsLayer
<1> QED BY <1>1, <1>2, <1>4

LEMMA StackIs ==
  ASSUME NEW a, IsLayer(a), NEW b, IsLayer(b),
         NEW env, env \in [DOMAIN env -> BOOLEAN]
  PROVE  IsStack(Layers(<<a, b, env>>))
<1>1. IsLayer(Spelled(EnvPrefix, env))
  BY SpelledIsLayer
<1> QED BY <1>1 DEF IsStack, Layers

LEMMA InitStartup == Init => LayersInv /\ PingInv /\ BootInv
<1> SUFFICES ASSUME Init PROVE LayersInv /\ PingInv /\ BootInv
  OBVIOUS
<1>1. PICK d, l, e : /\ sources = <<d, l, e>>
                     /\ IsLayer(d) /\ IsLayer(l) /\ e \in Environments
  BY ConfigurationAssumption, PlainLayers, FilesAreLayers DEF Init, Sources
<1>2. LayersInv
  BY <1>1, EnvironmentsAre, StackIs DEF LayersInv
<1>3. PingInv /\ BootInv
  BY StartupAssumption DEF Init, PingInv, BootInv
<1> QED BY <1>2, <1>3

LEMMA LayersStep == LayersInv /\ [Next]_vars => LayersInv'
<1> SUFFICES ASSUME LayersInv, [Next]_vars PROVE LayersInv'
  OBVIOUS
<1>1. CASE LoadSettings
  <2>1. /\ IsLayer(Load(Layers(sources)))
        /\ sources' = <<Load(Layers(sources)), <<>>, <<>>>>
    BY <1>1, LoadedIsLayer DEF LoadSettings, LayersInv
  <2> QED BY <2>1, PlainLayers, EnvironmentsAre, StackIs DEF LayersInv
<1>2. CASE LoadFails
  <2>1. sources' = <<[vad |-> Null], <<>>, <<>>>>
    BY <1>2 DEF LoadFails
  <2> QED BY <2>1, PlainLayers, EnvironmentsAre, StackIs DEF LayersInv
<1>3. CASE ~(LoadSettings \/ LoadFails)
  <2>1. sources' = sources
    BY <1>3 DEF Next, vars, StartUnit, StartLimitHit, TimeoutStart,
       WatchdogFires, Build, StartWorkers, AwaitStep, StartSupervisor,
       ServeFails, Fail, Trigger, Replace, Tick
  <2> QED BY <2>1 DEF LayersInv
<1> QED BY <1>1, <1>2, <1>3

(* The order in which files and environment take effect is the one that    *)
(* README.md and the docstring of Settings state, on the first start and   *)
(* on every later one, whatever the files and the environment say.         *)
THEOREM PrecedenceKept == Spec => []LayersMerged
<1>1. LayersInv => LayersMerged
  BY LoadIsPromised DEF LayersInv, LayersMerged
<1> QED BY <1>1, InitStartup, LayersStep, PTL DEF Spec

-----------------------------------------------------------------------------
(* The process, in time. *)

LEMMA PingStep == PingInv /\ [Next]_vars => PingInv'
<1> SUFFICES ASSUME PingInv, [Next]_vars PROVE PingInv'
  OBVIOUS
<1> USE StartupAssumption DEF PingInv
<1>1. CASE StartUnit \/ StartLimitHit
  BY <1>1 DEF StartUnit, StartLimitHit
<1>2. CASE TimeoutStart \/ WatchdogFires \/ LoadFails \/ ServeFails
  BY <1>2 DEF TimeoutStart, WatchdogFires, LoadFails, ServeFails, Gone
<1>3. CASE LoadSettings \/ Build \/ StartWorkers \/ AwaitStep
  BY <1>3 DEF LoadSettings, Build, StartWorkers, AwaitStep, systemd, process
<1>4. CASE StartSupervisor
  BY <1>4 DEF StartSupervisor
<1>5. ASSUME NEW w \in Workers, Fail(w) \/ Trigger(w) \/ Replace(w)
      PROVE  PingInv'
  BY <1>5 DEF Fail, Trigger, Replace, systemd, process
<1>6. CASE Tick
  BY <1>6 DEF Tick, Pings
<1>7. CASE UNCHANGED vars
  BY <1>7 DEF vars, systemd, process
<1> QED BY <1>1, <1>2, <1>3, <1>4, <1>5, <1>6, <1>7 DEF Next

(* Whatever restarts go on and however long they take, systemd gets its    *)
(* ping on every tick: a unit that is active and has nothing wrong with it *)
(* stays active.                                                           *)
THEOREM PingsSurviveRestarts == Spec => RestartsKeepPings
<1>1. PingInv /\ [Next]_vars
        => [fault = "none" /\ unit = "active" => unit' = "active"]_vars
  <2> SUFFICES ASSUME PingInv, Next, fault = "none", unit = "active"
               PROVE  unit' = "active"
    OBVIOUS
  <2>1. supervisor /\ at = "serve" /\ since = 0 /\ WatchdogSec \in Nat \ {0}
    BY StartupAssumption DEF PingInv
  <2>2. ~(\/ StartUnit \/ StartLimitHit \/ TimeoutStart \/ WatchdogFires
          \/ LoadFails \/ ServeFails)
    BY <2>1 DEF StartUnit, StartLimitHit, TimeoutStart, WatchdogFires,
       LoadFails, ServeFails
  <2>3. CASE LoadSettings \/ Build \/ StartWorkers \/ AwaitStep
    BY <2>3 DEF LoadSettings, Build, StartWorkers, AwaitStep, systemd
  <2>4. CASE StartSupervisor
    BY <2>1, <2>4 DEF StartSupervisor
  <2>5. CASE \E w \in Workers : Fail(w) \/ Trigger(w) \/ Replace(w)
    BY <2>5 DEF Fail, Trigger, Replace, systemd
  <2>6. CASE Tick
    BY <2>6 DEF Tick
  <2> QED BY <2>2, <2>3, <2>4, <2>5, <2>6 DEF Next
<1> QED BY <1>1, InitStartup, PingStep, PTL DEF Spec, RestartsKeepPings

LEMMA BootStep == BootInv /\ [Next]_vars => BootInv'
<1> SUFFICES ASSUME BootInv, [Next]_vars PROVE BootInv'
  OBVIOUS
<1> USE DEF BootInv
<1>1. ProcessStart \in Nat /\ StartTimeout \in Nat
  BY StartupAssumption
<1>2. CASE StartUnit \/ StartLimitHit
  BY <1>2 DEF StartUnit, StartLimitHit, process
<1>3. CASE TimeoutStart \/ WatchdogFires \/ LoadFails \/ ServeFails
  BY <1>3 DEF TimeoutStart, WatchdogFires, LoadFails, ServeFails, Gone
<1>4. CASE LoadSettings \/ Build
  BY <1>4 DEF LoadSettings, Build, systemd, process
<1>5. CASE StartWorkers
  BY <1>1, <1>5 DEF StartWorkers, systemd
<1>6. CASE AwaitStep
  BY <1>6 DEF AwaitStep, systemd
<1>7. CASE StartSupervisor
  BY <1>7 DEF StartSupervisor
<1>8. ASSUME NEW w \in Workers, Fail(w) \/ Trigger(w) \/ Replace(w)
      PROVE  BootInv'
  BY <1>8 DEF Fail, Trigger, Replace, systemd, process
<1>9. CASE Tick
  <2>1. /\ at \notin {"load", "build", "start"}
        /\ at = "await" => ~(Remaining <= 0)
        /\ at' = at /\ unit' = unit /\ supervisor' = supervisor
    BY <1>9 DEF Tick, Urgent
  <2>2. at = "await" => /\ since' = since + 1 /\ awaited' = awaited + 1
                        /\ awaited + 1 \in 0..ProcessStart
    <3> SUFFICES ASSUME at = "await"
                 PROVE  /\ since' = since + 1 /\ awaited' = awaited + 1
                        /\ awaited + 1 \in 0..ProcessStart
      OBVIOUS
    <3>1. awaited \in 0..ProcessStart /\ since = awaited /\ unit = "activating"
      OBVIOUS
    <3>2. awaited < ProcessStart
      BY <1>1, <2>1, <3>1 DEF Remaining
    <3>3. Capped(since, StartTimeout) = since + 1
      <4>1. ~(since >= StartTimeout)
        BY <1>9, <3>1 DEF Tick, Urgent
      <4> QED BY <1>1, <3>1, <4>1 DEF Capped
    <3>4. since' = since + 1 /\ awaited' = awaited + 1
      BY <1>9, <3>1, <3>3 DEF Tick
    <3> QED BY <1>1, <3>1, <3>2, <3>4
  <2> QED BY <2>1, <2>2
<1>10. CASE UNCHANGED vars
  BY <1>10 DEF vars, systemd, process
<1> QED BY <1>2, <1>3, <1>4, <1>5, <1>6, <1>7, <1>8, <1>9, <1>10 DEF Next

(* _await_stt_ready takes one deadline for all channels: whatever their    *)
(* number, and however slow their models load, the time since systemd      *)
(* started the unit is the time waited, and it ends by                     *)
(* process_start_timeout_s.  So systemd gives up on a boot whose           *)
(* supervisor is yet to start only where TimeoutStartSec is no longer than *)
(* that, as 90 s is with the shipped 120 s (SupervisorTakesOver).          *)
THEOREM WaitHasOneDeadline == Spec => []OneDeadline
<1>1. ProcessStart \in Nat /\ StartTimeout \in Nat \ {0}
  BY StartupAssumption
<1>2. BootInv => OneDeadline
  BY <1>1 DEF BootInv, OneDeadline
<1> QED BY <1>2, BootStep, InitStartup, PTL DEF Spec

=============================================================================
