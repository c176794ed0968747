---------------------------- MODULE OptimizerFlags ----------------------------
(***************************************************************************)
(* The translator's optimizer configuration (translator/optimizer): the   *)
(* Optimizer constructor completes the user's OPT_* flags with four       *)
(* implications applied once, in the order they are written, and          *)
(* CUDAOptimizer::DoStage2 then runs one pass per flag in a fixed order.  *)
(* The passes rewrite the AST and are abstracted to their names; the      *)
(* model is about which passes run and in which order.                     *)
(***************************************************************************)
EXTENDS Integers, Sequences, FiniteSets

OffsetComp == "OPT_OFFSET_COMP"
OffsetCSE == "OPT_OFFSET_CSE"
SpatialCSE == "OPT_OFFSET_SPATIAL_CSE"
LoopPeeling == "OPT_LOOP_PEELING"
RegisterBlocking == "OPT_REGISTER_BLOCKING"
KernelInlining == "OPT_KERNEL_INLINING"
LoopOpt == "OPT_LOOP_OPT"
UnconditionalGet == "OPT_UNCONDITIONAL_GET"

Flags == {OffsetComp, OffsetCSE, SpatialCSE, LoopPeeling, RegisterBlocking,
          KernelInlining, LoopOpt, UnconditionalGet}

VARIABLES
    given,      \* the flags the user's configuration sets
    flags,      \* the Configuration's flags as the optimizer sees them
    passes,     \* the passes run so far, in order
    stage       \* "configured", "constructed", "optimized"

vars == <<given, flags, passes, stage>>

-----------------------------------------------------------------------------
(* The constructor's implications, one operator per if statement.         *)
RuleOffsetComp(F) ==
    IF OffsetComp \in F THEN F \cup {OffsetCSE, SpatialCSE} ELSE F

RuleInlining(F) ==
    IF F \cap {LoopPeeling, RegisterBlocking, OffsetCSE, SpatialCSE, LoopOpt} # {}
    THEN F \cup {KernelInlining} ELSE F

RuleRegisterBlocking(F) ==
    IF RegisterBlocking \in F THEN F \cup {LoopPeeling} ELSE F

RuleLoopOpt(F) ==
    IF LoopOpt \in F THEN F \cup {OffsetCSE, SpatialCSE} ELSE F

(* The implications applied with the inlining rule first.                 *)
ApplyRulesInliningFirst(F) ==
    RuleLoopOpt(RuleRegisterBlocking(RuleOffsetComp(RuleInlining(F))))

(* Optimizer::Optimizer: the four if statements in order.                 *)
ApplyRules(F) ==
    RuleLoopOpt(RuleRegisterBlocking(RuleInlining(RuleOffsetComp(F))))

(* The flag each pass of CUDAOptimizer::DoStage2 is guarded by.           *)
PassFlag ==
    [kernel_inlining |-> KernelInlining, loop_peeling |-> LoopPeeling,
     register_blocking |-> RegisterBlocking, unconditional_get |-> UnconditionalGet,
     offset_cse |-> OffsetCSE, offset_spatial_cse |-> SpatialCSE,
     loop_opt |-> LoopOpt, premitive_optimization |-> LoopOpt]

(* CUDAOptimizer::DoStage2 with loop peeling ahead of kernel inlining.     *)
Stage2PassesPeelFirst(F) ==
    SelectSeq(<<"loop_peeling", "kernel_inlining", "register_blocking",
                "unconditional_get", "offset_cse", "offset_spatial_cse",
                "loop_opt", "premitive_optimization">>,
              LAMBDA p : PassFlag[p] \in F)

(* CUDAOptimizer::DoStage2: each pass whose flag is set, in order; loop   *)
(* optimization is followed by the primitive optimization.                 *)
Stage2Passes(F) ==
    SelectSeq(<<"kernel_inlining", "loop_peeling", "register_blocking",
                "unconditional_get", "offset_cse", "offset_spatial_cse",
                "loop_opt", "premitive_optimization">>,
              LAMBDA p : PassFlag[p] \in F)

-----------------------------------------------------------------------------
(* Any set of flags a configuration file can give.                        *)
Init ==
    /\ given \in SUBSET Flags
    /\ flags = given
    /\ passes = <<>>
    /\ stage = "configured"

(* new CUDAOptimizer(proj, tx, builder, config)                            *)
Construct ==
    /\ stage = "configured"
    /\ flags' = ApplyRules(flags)
    /\ stage' = "constructed"
    /\ UNCHANGED <<given, passes>>

(* optimizer->Stage2(), whose optimization is CUDAOptimizer::DoStage2;     *)
(* DoStage1 is empty.                                                      *)
DoStage2 ==
    /\ stage = "constructed"
    /\ passes' = Stage2Passes(flags)
    /\ stage' = "optimized"
    /\ UNCHANGED <<given, flags>>

Next == Construct \/ DoStage2

Spec == Init /\ [][Next]_vars

-----------------------------------------------------------------------------
(* The implications as a relation: setting any flag of "if" asks for      *)
(* every flag of "then".                                                   *)
Implications ==
    { [if |-> {OffsetComp}, then |-> {OffsetCSE, SpatialCSE}],
      [if |-> {LoopPeeling, RegisterBlocking, OffsetCSE, SpatialCSE, LoopOpt},
       then |-> {KernelInlining}],
      [if |-> {RegisterBlocking}, then |-> {LoopPeeling}],
      [if |-> {LoopOpt}, then |-> {OffsetCSE, SpatialCSE}] }

(* The least set of flags that contains F and is closed under the          *)
(* implications, whatever the order they are applied in.                   *)
RECURSIVE Closure(_)
Closure(F) ==
    LET G == F \cup UNION {r.then : r \in {q \in Implications : q.if \cap F # {}}}
    IN IF G = F THEN F ELSE Closure(G)

(* One pass of the constructor's if statements, in their order, completes *)
(* every configuration: a flag one statement sets is never the premise of *)
(* a statement that has already run.                                       *)
ImplicationsClosed ==
    stage # "configured" => flags = Closure(given)

(* Position of a pass in the run, 0 if it did not run.                     *)
PosOf(p) ==
    IF \E j \in 1..Len(passes) : passes[j] = p
    THEN CHOOSE j \in 1..Len(passes) : passes[j] = p ELSE 0

(* Every pass the constructor makes depend on kernel inlining runs after  *)
(* it, register blocking runs after loop peeling, and the primitive       *)
(* optimization right after loop optimization.                             *)
PassesAfterPrerequisites ==
    stage = "optimized" =>
        /\ \A p \in {"loop_peeling", "register_blocking", "offset_cse",
                     "offset_spatial_cse", "loop_opt"} :
               PosOf(p) > 0 => 0 < PosOf("kernel_inlining") /\ PosOf("kernel_inlining") < PosOf(p)
        /\ PosOf("register_blocking") > 0 => 0 < PosOf("loop_peeling") /\ PosOf("loop_peeling") < PosOf("register_blocking")
        /\ PosOf("loop_opt") > 0 => PosOf("premitive_optimization") = PosOf("loop_opt") + 1

=============================================================================
