----------------------------- MODULE ArmModels -----------------------------
(***************************************************************************)
(* The ARM CPU models of src/target-arm: the name table cpu_arm_set_model *)
(* searches, the ID, cache type and feature bits cpu_reset_model_id gives *)
(* each model, and arm_feature.  A feature set is a set of names of enum  *)
(* arm_features rather than a bit mask.                                   *)
(***************************************************************************)
EXTENDS Naturals, Sequences

\* enum arm_features
FeatureNames == {"VFP", "AUXCR", "XSCALE", "IWMMXT", "MPU"}

\* ARM_CPUID_* (cpu.h)
ARM926 == 1090949733     \* 0x41069265
ARM946 == 1090884705     \* 0x41059461
ARM1026 == 1090953826    \* 0x4106a262
PXA25x == {1761943808, 1761946880, 1761945859, 1761946885, 1761946886}
                         \* PXA250, PXA255, PXA260, PXA261, PXA262
PXA270 == 1761952016     \* 0x69054110, the same value as PXA270_A0
PXA27x == {1761952016, 1761952017, 1761952018, 1761952019, 1761952020,
           1761952023}   \* PXA270_A0, A1, B0, B1, C0, C5

\* arm_cpu_names, in table order (the terminating {0, NULL} left out).
ArmCpuNames ==
    <<[id |-> ARM926, name |-> "arm926"], [id |-> ARM946, name |-> "arm946"],
      [id |-> ARM1026, name |-> "arm1026"], [id |-> 1761943808, name |-> "pxa250"],
      [id |-> 1761946880, name |-> "pxa255"], [id |-> 1761945859, name |-> "pxa260"],
      [id |-> 1761946885, name |-> "pxa261"], [id |-> 1761946886, name |-> "pxa262"],
      [id |-> PXA270, name |-> "pxa270"], [id |-> 1761952016, name |-> "pxa270-a0"],
      [id |-> 1761952017, name |-> "pxa270-a1"], [id |-> 1761952018, name |-> "pxa270-b0"],
      [id |-> 1761952019, name |-> "pxa270-b1"], [id |-> 1761952020, name |-> "pxa270-c0"],
      [id |-> 1761952023, name |-> "pxa270-c5"]>>

ModelNames == {ArmCpuNames[i].name : i \in 1 .. Len(ArmCpuNames)}

\* cpu_arm_set_model: the id of the first entry with the name, 0 (and
\* cpu_abort) for an unknown name.
SetModel(name) ==
    LET hits == {i \in 1 .. Len(ArmCpuNames) : ArmCpuNames[i].name = name}
    IN IF hits = {} THEN 0
       ELSE ArmCpuNames[CHOOSE i \in hits : \A j \in hits : i <= j].id

\* cpu_reset_model_id: the feature bits set and the cache type register;
\* an id not in the switch aborts.
CpuResetModelId(id) ==
    CASE id = ARM926 -> [ok |-> TRUE, features |-> {"VFP"}, cachetype |-> 31269074]
      [] id = ARM946 -> [ok |-> TRUE, features |-> {"MPU"}, cachetype |-> 251674630]
      [] id = ARM1026 -> [ok |-> TRUE, features |-> {"VFP", "AUXCR"}, cachetype |-> 31269074]
      [] id \in PXA25x -> [ok |-> TRUE, features |-> {"XSCALE"}, cachetype |-> 219619698]
      [] id \in PXA27x -> [ok |-> TRUE, features |-> {"XSCALE", "IWMMXT"},
                           cachetype |-> 219619698]
      [] OTHER -> [ok |-> FALSE, features |-> {}, cachetype |-> 0]

\* arm_feature
ArmFeature(features, f) == f \in features

=============================================================================
