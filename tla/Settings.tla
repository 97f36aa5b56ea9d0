------------------------------- MODULE Settings -------------------------------
(***************************************************************************)
(* How src/edge_voice/config/settings.py arrives at its settings: two YAML *)
(* files merged, the environment merged over them by pydantic-settings,    *)
(* code defaults under all, and two validators.                            *)
(*                                                                         *)
(* A layer is a partial function from sections to a dict, a partial        *)
(* function from fields to values, or to Null (`vad:` with nothing under   *)
(* it).  Of the sections the model keeps one with a rule across its fields *)
(* and one the boot depends on.  The value of "soft_cut_s" is whether it   *)
(* is less than max_segment_s.                                             *)
(***************************************************************************)
EXTENDS Integers, Sequences

CONSTANTS Null, Invalid

Fields ==
  [vad |-> {"segment_limits_enabled", "soft_cut_enabled", "soft_cut_s"},
   reliability |-> {"enabled"}]

Sections == DOMAIN Fields

(* Those of the classes. *)
CodeDefaults ==
  [vad |-> [segment_limits_enabled |-> FALSE, soft_cut_enabled |-> TRUE,
            soft_cut_s |-> TRUE],
   reliability |-> [enabled |-> TRUE]]

(* configs/default.yaml, which names every field. *)
DefaultYaml ==
  [vad |-> [segment_limits_enabled |-> TRUE, soft_cut_enabled |-> FALSE,
            soft_cut_s |-> TRUE],
   reliability |-> [enabled |-> TRUE]]

Dicts(s) == UNION {[D -> BOOLEAN] : D \in SUBSET Fields[s]}

ASSUME SettingsAssumption == \A s \in Sections : Null \notin Dicts(s)

(* A file that is missing or empty is the layer without sections. *)
Files ==
  UNION {{l \in [D -> (UNION {Dicts(s) : s \in D}) \cup {Null}] :
            \A s \in D : l[s] \in Dicts(s) \cup {Null}} :
         D \in SUBSET Sections}

(* A variable of the environment names one field: a prefix, the section    *)
(* and, after two underscores, the field.                                  *)
Prefixes == {"EDGE_VOICE_", "EDGE_VOICE__"}

(* env_prefix: what follows is a section, and "_VAD" is none. *)
EnvPrefix == "EDGE_VOICE_"

Variables ==
  UNION {{[prefix |-> p, section |-> s, field |-> f] : f \in Fields[s]} :
         p \in Prefixes, s \in Sections}

(* BOUND: one environment is spelled in one way. *)
Environments ==
  UNION {UNION {[D -> BOOLEAN] : D \in SUBSET {v \in Variables : v.prefix = p}} :
         p \in Prefixes}

(* What an environment says in one spelling, as a layer. *)
Spelled(prefix, env) ==
  LET Named(s) == {f \in Fields[s] :
                     [prefix |-> prefix, section |-> s, field |-> f] \in DOMAIN env}
  IN [s \in {t \in Sections : Named(t) # {}} |->
        [f \in Named(s) |-> env[[prefix |-> prefix, section |-> s, field |-> f]]]]

(* What there may be to load: the first file is in the repository. *)
Sources == {DefaultYaml, <<>>} \X Files \X Environments

(* The two files and the environment, as layers. *)
Layers(sources) == <<sources[1], sources[2], Spelled(EnvPrefix, sources[3])>>

-----------------------------------------------------------------------------
(* {**under, **upper} *)
Over(upper, under) ==
  [k \in DOMAIN upper \cup DOMAIN under |->
     IF k \in DOMAIN upper THEN upper[k] ELSE under[k]]

DeepMergeMutant(base, override) == Over(override, base)

(* Dicts under one key are merged, anything else is replaced. *)
DeepMerge(base, override) ==
  [s \in DOMAIN base \cup DOMAIN override |->
     IF /\ s \in DOMAIN base \cap DOMAIN override
        /\ base[s] # Null /\ override[s] # Null
     THEN Over(override[s], base[s])
     ELSE Over(override, base)[s]]

(* The files first, then the environment over what they came to. *)
Merged(layers) ==
  LET files == DeepMerge(layers[1], layers[2]) IN DeepMerge(files, layers[3])

(* _check_soft_cut_below_hard_cap; the repacketizer's rule is of its kind. *)
SoftCutBelowHardCap(vad) ==
  vad.segment_limits_enabled /\ vad.soft_cut_enabled => vad.soft_cut_s

Load(layers) ==
  LET merged == Merged(layers)
      loaded == [s \in Sections |->
                   IF s \in DOMAIN merged THEN Over(merged[s], CodeDefaults[s])
                   ELSE CodeDefaults[s]]
  IN IF \E s \in DOMAIN merged : merged[s] = Null THEN Invalid
     ELSE IF SoftCutBelowHardCap(loaded.vad) THEN loaded
     ELSE Invalid

-----------------------------------------------------------------------------
(* What README.md and the docstring of Settings say of layers, not merged: *)
(* a field has the value of the last layer that names it, and an empty     *)
(* section, which does not validate, hides what the layers before it say.  *)
Last(I) == CHOOSE i \in I : \A j \in I : j <= i

Layered(layers, s, f) ==
  LET Says == {i \in 1..Len(layers) : s \in DOMAIN layers[i]}
      Empty == {i \in Says : layers[i][s] = Null}
      Names == {i \in Says \ Empty : /\ f \in DOMAIN layers[i][s]
                                     /\ Empty # {} => i > Last(Empty)}
  IN IF Names = {} THEN CodeDefaults[s][f] ELSE layers[Last(Names)][s][f]

LeftEmpty(layers, s) ==
  LET Says == {i \in 1..Len(layers) : s \in DOMAIN layers[i]}
  IN Says # {} /\ layers[Last(Says)][s] = Null

Promised(layers) ==
  LET fields == [s \in Sections |-> [f \in Fields[s] |-> Layered(layers, s, f)]]
  IN IF (\E s \in Sections : LeftEmpty(layers, s)) \/ ~SoftCutBelowHardCap(fields.vad)
     THEN Invalid ELSE fields
=============================================================================
