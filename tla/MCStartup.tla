------------------------------ MODULE MCStartup ------------------------------
(* Startup with the two channels of configs/default.yaml.                  *)
EXTENDS Startup, TLC

RxTx == <<"rx", "tx">>

(* Settings that the rest of a boot tells apart: as shipped, without a      *)
(* supervisor, and some that do not validate.                               *)
Distinct ==
  {<<DefaultYaml, local, <<>>>> :
     local \in {<<>>, [reliability |-> [enabled |-> FALSE]], [vad |-> Null]}}

Variable(prefix, s, f) == [prefix |-> prefix, section |-> s, field |-> f]
Vad(f) == Variable(EnvPrefix, "vad", f)

(* Sections that two or three layers name in part, or leave empty in        *)
(* between, and that come to the shipped settings; the last does not        *)
(* validate, and only because of what the layers come to together.          *)
NamedInPart ==
  {<<DefaultYaml, [vad |-> [soft_cut_enabled |-> TRUE]],
     Vad("soft_cut_enabled") :> FALSE>>,
   <<<<>>, [vad |-> [segment_limits_enabled |-> TRUE]],
     Vad("soft_cut_enabled") :> FALSE>>,
   <<DefaultYaml, [vad |-> Null],
     Vad("segment_limits_enabled") :> TRUE @@ Vad("soft_cut_enabled") :> FALSE>>,
   <<DefaultYaml, [vad |-> [soft_cut_s |-> FALSE], reliability |-> <<>>],
     Vad("soft_cut_s") :> TRUE>>,
   <<DefaultYaml, [vad |-> [soft_cut_enabled |-> TRUE]],
     Vad("soft_cut_s") :> FALSE>>}

(* A variable as README.md spells it.                                       *)
AsDocumented ==
  {<<DefaultYaml, <<>>,
     Variable(DocumentedSpelling, "reliability", "enabled") :> FALSE>>}

(* BOUND: the files and environments a boot may find.                       *)
Telling == Distinct \cup NamedInPart \cup AsDocumented
=============================================================================
