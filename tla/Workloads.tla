------------------------------ MODULE Workloads ------------------------------
(***************************************************************************)
(* The workload catalog: which files it reads, and what a draw from one of *)
(* its profiles can return or raise.  A requirement map gives each of its  *)
(* keys the ranges of its fields, as sequences of numbers; a file is a     *)
(* record of three sequences of profiles:                                  *)
(*   profiles                 kind, requirements                           *)
(*   infrastructure_profiles  kind, steps: records of node, requirements   *)
(*   application_profiles     kind, pre, delegations, post, where each     *)
(*                            delegation is a record of role, requirements *)
(* A phase that the file does not have is NoPhase.                         *)
(***************************************************************************)
EXTENDS Integers, SequencesExt

CONSTANTS
  NoKind,    \* create_work without a kind: one is chosen
  NoPhase,
  Nowhere    \* the node of a work that names none

FieldsOf == [cpu |-> {"required_clocks", "clock_usage_hz"}, memory |-> {"capacity"},
             storage |-> {"read", "write"}, gpu |-> {"compute", "memory"},
             network |-> {"ingress", "egress", "connections"}]

\* What __post_init__ of a requirement accepts at least in a field.
Least(field) == IF field \in {"read", "write", "ingress", "egress"} THEN 0 ELSE 1

DelegationRoles == {"database_server", "gpu_worker", "storage_server"}

\* What the file says of a field, with the defaults of the network.
RangeOf(requirements, key, field) ==
  IF field \in DOMAIN requirements[key] THEN requirements[key][field]
  ELSE IF field = "connections" THEN <<1, 1>> ELSE <<0, 0>>

RangesOf(requirements) ==
  UNION {{<<field, RangeOf(requirements, key, field)>> : field \in FieldsOf[key]} :
           key \in DOMAIN requirements}

-----------------------------------------------------------------------------
(* Loading                                                                 *)

Readable(requirements) ==
  \A key \in DOMAIN requirements :
    /\ key \in DOMAIN FieldsOf
    /\ key # "network" => FieldsOf[key] \subseteq DOMAIN requirements[key]
    /\ \A field \in FieldsOf[key] : Len(RangeOf(requirements, key, field)) = 2

PhaseReadable(phase) == phase = NoPhase \/ (DOMAIN phase # {} /\ Readable(phase))

Loads(file) ==
  /\ \E list \in DOMAIN file : file[list] # <<>>
  /\ \A profile \in ToSet(file.profiles) : Readable(profile.requirements)
  /\ \A profile \in ToSet(file.infrastructure_profiles) :
       \A step \in ToSet(profile.steps) : Readable(step.requirements)
  /\ \A profile \in ToSet(file.application_profiles) :
       /\ PhaseReadable(profile.pre) /\ PhaseReadable(profile.post)
       /\ \A delegation \in ToSet(profile.delegations) :
            delegation.role \in DelegationRoles /\ Readable(delegation.requirements)

-----------------------------------------------------------------------------
(* Drawing: randint picks in a range and raises when there is nothing in   *)
(* it, the requirement raises when it is too little, and an empty map of   *)
(* requirements or list of steps raises as well.                           *)

MayDraw(requirements) ==
  /\ DOMAIN requirements # {}
  /\ \A r \in RangesOf(requirements) : \E drawn \in r[2][1] .. r[2][2] : drawn >= Least(r[1])

MayRaise(requirements) ==
  \/ DOMAIN requirements = {}
  \/ \E r \in RangesOf(requirements) :
       r[2][1] > r[2][2] \/ \E drawn \in r[2][1] .. r[2][2] : drawn < Least(r[1])

\* The steps of a work, a single one for a plain work.
StepsOf(profile) ==
  IF "steps" \in DOMAIN profile THEN profile.steps
  ELSE <<[node |-> Nowhere, requirements |-> profile.requirements]>>

WorkMayDraw(profile) ==
  /\ StepsOf(profile) # <<>>
  /\ \A step \in ToSet(StepsOf(profile)) : MayDraw(step.requirements)
WorkMayRaise(profile) ==
  \/ StepsOf(profile) = <<>>
  \/ \E step \in ToSet(StepsOf(profile)) : MayRaise(step.requirements)

PhasesOf(profile) ==
  ({profile.pre, profile.post} \ {NoPhase})
    \cup {delegation.requirements : delegation \in ToSet(profile.delegations)}
ApplicationMayDraw(profile) == \A phase \in PhasesOf(profile) : MayDraw(phase)
ApplicationMayRaise(profile) == \E phase \in PhasesOf(profile) : MayRaise(phase)

\* The profiles a lookup comes to: all without a kind, or the first of a kind.
Candidates(profiles, kind) ==
  IF kind = NoKind THEN ToSet(profiles)
  ELSE {profiles[i] : i \in {j \in DOMAIN profiles :
                              /\ profiles[j].kind = kind
                              /\ \A l \in 1 .. j - 1 : profiles[l].kind # kind}}

\* Faulty: looks in the first list only.
PlainCandidates(file, kind) == Candidates(file.profiles, kind)

\* create_work looks at the plain and the infrastructure profiles only.
WorkCandidates(file, kind) ==
  Candidates(file.profiles \o file.infrastructure_profiles, kind)
ApplicationCandidates(file, kind) == Candidates(file.application_profiles, kind)
==============================================================================
