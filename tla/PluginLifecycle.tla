-------------------------- MODULE PluginLifecycle --------------------------
(***************************************************************************)
(* crates/aether-plugin: one plugin version from its installation over the *)
(* operator's approval to its run and its revocation.  The row lives in    *)
(* Postgres; a load locks it, runs the signed module in its sandbox and    *)
(* records the transition.  The in-memory registry has the same rules in   *)
(* one step.  A hash stands for what it hashes.                            *)
(***************************************************************************)
EXTENDS Authorization, Sequences, FiniteSets, SequencesExt

CONSTANTS Loaders, Manifests, Modules, TrustedSigners, DeniedDeps, MaxLoads

VARIABLES row,      \* the row of plugin_manifests
          approval, \* a verified approval the operator holds
          loader,   \* of each loader: what it holds of the row
          effects,  \* the capabilities whose host functions took effect
          runs,     \* the modules that ran, with what the row said then
          audit     \* the gate's audit events, TRUE for an allowed load

vars == <<row, approval, loader, effects, runs, audit>>

Capabilities == {"read_markets", "execute_paper", "network_http"}
None == [status |-> "none"]
Idle == [pc |-> "idle"]

\* The capabilities the runtime links a host function for; the network has none.
HostImports == Capabilities \ {"network_http"}

-----------------------------------------------------------------------------
(* Manifest, signature and approval.                                       *)

\* validate(): the identity, hash and entry-point fields are abstracted to
\* named.
Valid(m) ==
  /\ m.named /\ m.caps # << >> /\ IsInjective(m.caps)
  /\ IF "network_http" \in ToSet(m.caps)
     THEN m.hosts # {} /\ "malformed" \notin m.hosts
     ELSE m.hosts = {}

\* A signature names its signer and what it was made over.
SignedBy(m, signer) == [signer |-> signer, over |-> m]
Verifies(m, signature) == signature.over = m

\* VerifiedPluginApproval::verify.
MayApprove(m, signature, kind, stepUp) ==
  /\ Valid(m) /\ Verifies(m, signature) /\ kind = "human"
  /\ Evaluate("who", kind, Grant("who", kind, 4, {}, FALSE, 0), "ApprovePlugin",
              Context(1, 4, TRUE, stepUp)) = "Allow"

Init ==
  /\ row = None /\ approval = None
  /\ loader = [l \in Loaders |-> Idle]
  /\ effects = {} /\ runs = {} /\ audit = << >>

\* install() writes any manifest; install_generated() one that was compiled and
\* validated, with its module.
Install ==
  /\ row = None
  /\ \E m \in Manifests, generated \in BOOLEAN :
       /\ generated => Valid(m) /\ m.lock = m.deps
       /\ row' = [status |-> "installed", manifest |-> m,
                  artifact |-> IF generated THEN m.module ELSE "none"]
  /\ UNCHANGED <<approval, loader, effects, runs, audit>>

\* The operator's approval is verified against a manifest the operator saw.
Verify ==
  /\ approval = None
  /\ \E m \in Manifests, over \in Manifests, signer \in TrustedSigners \cup {"other"},
        kind \in Kinds, stepUp \in BOOLEAN, granted \in SUBSET Capabilities :
       /\ MayApprove(m, SignedBy(over, signer), kind, stepUp)
       /\ approval' = [status |-> "verified", manifest |-> m, kind |-> kind,
                       stepUp |-> stepUp, signature |-> SignedBy(over, signer),
                       granted |-> granted]
  /\ UNCHANGED <<row, loader, effects, runs, audit>>

\* A row that a load has locked is waited for.
RowFree == \A l \in Loaders : loader[l].pc # "locked"

\* The approval is one of this manifest and grants what it asks.
Covers(a, m) == a.manifest = m /\ ToSet(m.caps) \subseteq a.granted

Approve ==
  /\ approval.status = "verified" /\ row.status = "installed" /\ RowFree
  /\ Covers(approval, row.manifest)
  /\ row' = [status |-> "approved", manifest |-> row.manifest, artifact |-> row.artifact,
             signature |-> approval.signature, granted |-> approval.granted,
             kind |-> approval.kind, stepUp |-> approval.stepUp]
  /\ UNCHANGED <<approval, loader, effects, runs, audit>>

-----------------------------------------------------------------------------
(* Loading.                                                                *)

\* load_generated_and_run() reads the stored module first; load_and_run() is
\* given the bytes.  The approved row is locked.
Lock(l) ==
  /\ loader[l] = Idle /\ row.status = "approved" /\ RowFree /\ Len(audit) < MaxLoads
  /\ \E module \in IF row.artifact = "none" THEN DOMAIN Modules
                   ELSE {row.artifact} \cup DOMAIN Modules :
       loader' = [loader EXCEPT ![l] = [pc |-> "locked", module |-> module, row |-> row]]
  /\ UNCHANGED <<row, approval, effects, runs, audit>>

\* scan(): the lock hash is that of the dependencies, none of them denied.
Scanned(m) == m.lock = m.deps /\ m.deps \cap DeniedDeps = {}

\* The checks of the gate and of the runtime, before the module is entered.
Admitted(r, module) ==
  /\ Valid(r.manifest) /\ r.signature.signer \in TrustedSigners
  /\ Verifies(r.manifest, r.signature) /\ Scanned(r.manifest)
  /\ module = r.manifest.module
  /\ ToSet(r.manifest.caps) \subseteq r.granted /\ "network_http" \notin r.granted

\* Mutant: a host function works for whatever it is called with.
EffectiveAll(module, granted) == ToSet(Modules[module].calls)

\* Every call of a host function is looked up in the grant of this run.
Effective(module, granted) == ToSet(Modules[module].calls) \cap granted

\* What execute() answers for an admitted module: every import is a host function,
\* it does not trap, and no call of it was denied.
Completes(module, granted) ==
  LET calls == ToSet(Modules[module].calls) IN
    calls \subseteq HostImports /\ calls \subseteq granted /\ ~Modules[module].traps

\* The module runs; its calls take effect one by one, also when it traps or is
\* denied another.  Imports that do not exist keep it from starting.
Execute(l) ==
  LET me == loader[l]
      r == me.row
      admitted == Admitted(r, me.module)
      starts == admitted /\ ToSet(Modules[me.module].calls) \subseteq HostImports
      done == admitted /\ Completes(me.module, r.granted) IN
    /\ me.pc = "locked"
    /\ effects' = IF starts THEN effects \cup Effective(me.module, r.granted) ELSE effects
    /\ runs' = IF starts THEN runs \cup {[module |-> me.module, row |-> r]} ELSE runs
    /\ audit' = Append(audit, done)
    /\ row' = IF done THEN [row EXCEPT !.status = "loaded"] ELSE row
    /\ loader' = [loader EXCEPT ![l] = Idle]
    /\ UNCHANGED approval

\* The module has run, but the transaction does not commit.
CommitFails(l) ==
  LET r == loader[l].row IN
    /\ loader[l].pc = "locked" /\ Admitted(r, loader[l].module)
    /\ Completes(loader[l].module, r.granted)
    /\ effects' = effects \cup Effective(loader[l].module, r.granted)
    /\ runs' = runs \cup {[module |-> loader[l].module, row |-> r]}
    /\ audit' = Append(audit, TRUE)
    /\ loader' = [loader EXCEPT ![l] = Idle]
    /\ UNCHANGED <<row, approval>>

\* Mutant: the revocation does not wait for a load.
RevocableAtOnce == row.status \in {"installed", "approved", "loaded"}

Revocable == row.status \in {"installed", "approved", "loaded"} /\ RowFree

Revoke ==
  /\ Revocable
  /\ row' = [row EXCEPT !.status = "revoked"]
  /\ UNCHANGED <<approval, loader, effects, runs, audit>>

Next ==
  \/ Install \/ Verify \/ Approve \/ Revoke
  \/ \E l \in Loaders : Lock(l) \/ Execute(l) \/ CommitFails(l)

Spec == Init /\ [][Next]_vars

-----------------------------------------------------------------------------
\* What runs is the module its manifest names, signed by a trusted signer, and
\* approved by a human who stepped up, for at least what it asks.
RanAsApproved ==
  \A run \in runs :
    /\ run.module = run.row.manifest.module
    /\ run.row.kind = "human" /\ run.row.stepUp
    /\ run.row.signature = SignedBy(run.row.manifest, run.row.signature.signer)
    /\ run.row.signature.signer \in TrustedSigners
    /\ ToSet(run.row.manifest.caps) \subseteq run.row.granted
    /\ run.row.manifest.deps \cap DeniedDeps = {}

\* Nothing takes effect beyond what the operator granted, nor over the network.
EffectsGranted ==
  /\ effects # {} => row.status # "none" /\ effects \subseteq row.granted
  /\ "network_http" \notin effects

\* A loaded plugin has run, and a run that was allowed is in the audit.
LoadedHasRun == row.status = "loaded" => runs # {} /\ Last(audit)

\* The rules of the plugin gate (persistence.rs, load_and_run; gate.rs).
PluginSound == RanAsApproved /\ EffectsGranted /\ LoadedHasRun

\* Once the revocation is committed nothing of the plugin runs, whatever a loader
\* had read before (persistence.rs, load_and_run and revoke).
RevokedStep ==
  row.status = "revoked" => runs' = runs /\ effects' = effects /\ row' = row

\* As a property of behaviours.
RevokedNeverRuns == [][RevokedStep]_vars

\* A plugin that has run is no longer waiting for its run.  Not so: a denied call,
\* a trap or a failed commit leaves it approved, and its calls are made again.
RunOnce == runs # {} => row.status \in {"loaded", "revoked"}
=============================================================================
