--------------------------- MODULE CandidateCapture ---------------------------
(***************************************************************************)
(* The capture of a candidate (evaluate/multiformat_candidate_capture.py)  *)
(* from the start of its process to its READY manifest: two clean runs     *)
(* over the same frozen sources, with private copies of the programs,      *)
(* while other people work on the machine: any file may be replaced        *)
(* between two steps, and put back later.  A portable capture starts its   *)
(* own program again in a sandbox first (multiformat_candidate_sandbox.py).*)
(*                                                                         *)
(* A file is modelled by the number of its version.  Version 0 of a source *)
(* is the one that the frozen corpus lists, version 0 of a program the one *)
(* that the lock names, and the attestation is for version 0 of corpus and *)
(* lock.  Another version of the corpus has other units of the sources.    *)
(***************************************************************************)
EXTENDS Naturals, Sequences, SequencesExt

CONSTANTS
  Sources,   \* the sources of the corpus
  MaxEdits   \* bound on the replacements of files

\* lock stands for the contract and the evaluator manifest too: read at the same points,
\* but for the last one.
Scope == {"corpus", "lock"}

\* converter stands for all that runs from its copy: Poppler and the signer; soffice
\* for what runs where it is installed, as Chromium does.
Programs == {"converter", "fonts", "soffice"}
Private == {"converter", "fonts"}

\* The fonts are copied twice: with their bundle, and from there to where they are used.
Copied == Programs \cup {"bundle"}

\* In the order of the corpus: any will do.
SourceSeq == SetToSeq(Sources)

\* profile stands for the sandbox executable too.
Replaceable == Sources \cup Scope \cup Programs \cup {"profile"}

\* What the sandbox denies to a process, and what another profile might.
Denials == {"oracle", "network", "sockets"}
Enforced(version) == IF version = 0 THEN Denials ELSE {"network"}

Nothing == [none |-> TRUE]
Unset == 2

VARIABLES
  portable,  \* the lock is of the portable profile
  token,     \* the version of the profile that the environment names, or Unset
  denied,    \* what this process is denied
  disk,      \* file -> its version now
  edits,
  loaded,    \* the version of the corpus from which the sources were listed
  tools,     \* program -> the version that the runtime identity will record
  copies,    \* program -> the copy under runtime-inputs and its change time
  sealed,    \* the copies as RuntimeArtifactSnapshots remembers them
  todo,      \* the stages that are left
  seen, staged,  \* of the source that is being converted: its digest, and its copy
  made,      \* <<run, source>> -> what its artifacts were made from
  secured,   \* the version of the corpus that the security executions name
  manifest,  \* the READY manifest, once it is published
  result     \* "running", "done" or "failed"

process == <<token, denied>>
world == <<portable, disk, edits>>
runtime == <<tools, copies, sealed>>
source == <<seen, staged>>
runs == <<made, secured>>
vars == <<world, process, runtime, source, runs, loaded, todo, manifest, result>>

-----------------------------------------------------------------------------
(* The stages, in the order of capture_candidate_evidence.                  *)

Stage(name) == <<name, 0, "all">>

Steps == <<"hash", "stage", "convert", "confirm", "browse", "measure", "shoot">>
CleanRun(r) ==
  [i \in 1..(Len(Steps) * Len(SourceSeq)) |->
     <<Steps[((i - 1) % Len(Steps)) + 1], r, SourceSeq[((i - 1) \div Len(Steps)) + 1]>>]

Between == <<Stage("recheck"), Stage("relist"), Stage("recheck")>>

Security == IF portable THEN <<Stage("security"), Stage("recheck")>> ELSE <<>>

Plan ==
  <<Stage("enter"), Stage("resolve"), Stage("compare profiles"), Stage("probe"),
    Stage("list"), Stage("attest"), Stage("record"), Stage("isolation"), Stage("copy"), Stage("install"),
    Stage("seal"), Stage("validate"), Stage("recheck")>>
    \o CleanRun(1) \o Between \o CleanRun(2) \o Between
    \o Security
    \o <<Stage("compare"), Stage("write"), Stage("recheck"), Stage("accept"),
         Stage("publish"), Stage("recheck")>>

-----------------------------------------------------------------------------
Init ==
  /\ portable \in BOOLEAN
  /\ disk = [f \in Replaceable |-> 0] /\ edits = 0
  /\ token \in {Unset, 0} /\ denied = {}
  /\ loaded = 0 /\ tools = [p \in Programs |-> 0]
  /\ copies = [p \in Copied |-> Nothing] /\ sealed = copies
  /\ todo = Plan
  /\ seen = 0 /\ staged = 0 /\ made = <<>> /\ secured = 0
  /\ manifest = Nothing /\ result = "running"

\* A stage is over: the next one follows, unless a check failed.
Proceed(ok) ==
  IF ~ok THEN todo' = <<>> /\ result' = "failed"
  ELSE /\ todo' = Tail(todo)
       /\ result' = IF Len(todo) = 1 THEN "done" ELSE result

At(name) == todo # <<>> /\ Head(todo)[1] = name

\* A program is that of the lock: of a package, every file is in its inventory.
InLock(p) == disk[p] = 0

\* enter_locked_sandbox: without a portable lock there is no sandbox.
Enter ==
  /\ At("enter")
  /\ IF portable /\ disk["lock"] = 0 THEN Proceed(TRUE)
     ELSE todo' = SubSeq(todo, 5, Len(todo)) /\ UNCHANGED result
  /\ UNCHANGED <<world, process, runtime, source, runs, loaded, manifest>>

\* What the lock names, and the attestation, is what is there.
Resolve ==
  /\ At("resolve") /\ Proceed(InLock("profile"))
  /\ UNCHANGED <<world, process, runtime, source, runs, loaded, manifest>>

\* The environment names this profile, or it will in the sandbox.
CompareProfiles ==
  /\ At("compare profiles")
  /\ IF token = disk["profile"] THEN Proceed(TRUE) /\ UNCHANGED token
     ELSE token' = disk["profile"] /\ todo' = <<Stage("launch")>> /\ UNCHANGED result
  /\ UNCHANGED <<world, denied, runtime, source, runs, loaded, manifest>>

\* execve: the program starts again.
Launch ==
  /\ At("launch")
  /\ denied' = denied \cup Enforced(disk["profile"]) /\ todo' = Plan
  /\ UNCHANGED <<world, token, runtime, source, runs, loaded, manifest, result>>

\* The process tries by itself: everything must be denied to it.
Isolated == Denials \subseteq denied
Probe ==
  /\ At("probe") /\ Proceed(Isolated)
  /\ UNCHANGED <<world, process, runtime, source, runs, loaded, manifest>>

\* require_active_sandbox, after the preflight.
RequireIsolation ==
  /\ At("isolation") /\ Proceed(portable => token = disk["profile"] /\ Isolated)
  /\ UNCHANGED <<world, process, runtime, source, runs, loaded, manifest>>

\* The corpus is READY when its sources are those that it lists, and either version of
\* it lists the same ones, if with other units.
Listed == \A s \in Sources : disk[s] = 0

\* load_candidate_sources, in the preflight.
List ==
  /\ At("list") /\ loaded' = disk["corpus"] /\ Proceed(Listed)
  /\ UNCHANGED <<world, process, runtime, source, runs, manifest>>

\* The attestation is signed for this scope.
Attested == \A f \in Scope : disk[f] = 0

\* preflight_candidate_capture, up to the attestation.
Attest ==
  /\ At("attest") /\ Proceed(/\ Attested
                            /\ \A p \in Programs : InLock(p)
                            /\ portable => InLock("profile"))
  /\ UNCHANGED <<world, process, runtime, source, runs, loaded, manifest>>

\* The preflight hashes the programs again for the runtime identity.
Record ==
  /\ At("record") /\ tools' = [p \in Programs |-> disk[p]] /\ Proceed(TRUE)
  /\ UNCHANGED <<world, process, source, runs, loaded, copies, sealed, manifest>>

\* Each copy is taken from an unchanging file: its status is the same before and after.
CopyOf(content) == [content |-> content, changed |-> 0]
Copy ==
  /\ At("copy")
  /\ copies' = [p \in Copied |->
                  CASE p = "fonts" -> Nothing
                    [] p = "bundle" -> CopyOf(disk["fonts"])
                    [] OTHER -> CopyOf(disk[p])]
  /\ Proceed(TRUE)
  /\ UNCHANGED <<world, process, source, runs, loaded, tools, sealed, manifest>>

\* prepare_font_environment, from the copy of the bundle.
Install ==
  /\ At("install") /\ Proceed(TRUE)
  /\ copies' = [copies EXCEPT !["fonts"] = CopyOf(copies["bundle"].content)]
  /\ UNCHANGED <<world, process, source, runs, loaded, tools, sealed, manifest>>

\* RuntimeArtifactSnapshots.capture.
Seal ==
  /\ At("seal") /\ sealed' = copies /\ Proceed(TRUE)
  /\ UNCHANGED <<world, process, source, runs, loaded, tools, copies, manifest>>

\* What runs: a copy or the installed program.
Running(p) == IF p \in Private THEN copies[p].content ELSE disk[p]

\* validate_candidate_runtime: the programs that will run are those of the lock.
Validate ==
  /\ At("validate") /\ Proceed(\A p \in Programs \ {"fonts"} : Running(p) = 0)
  /\ UNCHANGED <<world, process, runtime, source, runs, loaded, manifest>>

\* Mutant of Unchanged: the digests are compared, not the times.
SameContents == \A p \in Copied : copies[p].content = sealed[p].content

\* revalidate: inode, mode, size, times and digest of every copy.
Unchanged == copies = sealed
Recheck ==
  /\ At("recheck") /\ Proceed(Unchanged)
  /\ UNCHANGED <<world, process, runtime, source, runs, loaded, manifest>>

\* _revalidate_sources.
Relist ==
  /\ At("relist")
  /\ Proceed(Listed /\ disk["corpus"] = loaded)
  /\ UNCHANGED <<world, process, runtime, source, runs, loaded, manifest>>

-----------------------------------------------------------------------------
(* The conversion of one source in one run.                                 *)

Run == Head(todo)[2]
Source == Head(todo)[3]

Hash ==
  /\ At("hash") /\ seen' = disk[Source] /\ Proceed(TRUE)
  /\ UNCHANGED <<world, process, runtime, runs, loaded, staged, manifest>>

StageSource ==
  /\ At("stage") /\ staged' = disk[Source] /\ Proceed(disk[Source] = seen)
  /\ UNCHANGED <<world, process, runtime, runs, loaded, seen, manifest>>

Made(r, x, fields) ==
  made' = [y \in DOMAIN made \cup {<<r, x>>} |-> IF y = <<r, x>> THEN fields ELSE made[y]]

\* A stage may fail.
Produce == Proceed(TRUE) \/ Proceed(FALSE)

\* The converter reads the staged copy.
Convert ==
  /\ At("convert") /\ Produce
  /\ Made(Run, Source, [source |-> staged, converter |-> Running("converter"),
                        soffice |-> Running("soffice")])
  /\ UNCHANGED <<world, process, runtime, source, loaded, secured, manifest>>

\* The source and its staged copy are what they were, and what the corpus lists.
Confirm ==
  /\ At("confirm")
  /\ Proceed(disk[Source] = seen /\ staged = seen /\ seen = 0)
  /\ UNCHANGED <<world, process, runtime, source, runs, loaded, manifest>>

\* The browser is given the HTML that was read, and takes its fonts from the copy.
Browse ==
  /\ At("browse") /\ Produce
  /\ Made(Run, Source, [source |-> made[<<Run, Source>>].source,
                        converter |-> made[<<Run, Source>>].converter,
                        soffice |-> made[<<Run, Source>>].soffice,
                        fonts |-> Running("fonts"), browser |-> Running("soffice")])
  /\ UNCHANGED <<world, process, runtime, source, loaded, secured, manifest>>

\* The inventories and pictures of the units, one after the other.
Measure ==
  /\ At("measure") /\ Produce
  /\ UNCHANGED <<world, process, runtime, source, runs, loaded, manifest>>
Shoot ==
  /\ At("shoot") /\ Produce
  /\ UNCHANGED <<world, process, runtime, source, runs, loaded, manifest>>

\* The ten security cases, of the corpus as it is now.
RunSecurity ==
  /\ At("security") /\ secured' = disk["corpus"] /\ Proceed(Listed)
  /\ UNCHANGED <<world, process, runtime, source, loaded, made, manifest>>

-----------------------------------------------------------------------------
(* write_candidate_manifests.                                               *)

\* The second run may differ from the first by more than is tolerated: of a picture little
\* is, and of a native format the HTML may differ, and an inventory slightly.
Compare ==
  /\ At("compare") /\ \E reproduced \in BOOLEAN : Proceed(Unchanged /\ reproduced)
  /\ UNCHANGED <<world, process, runtime, source, runs, loaded, manifest>>

\* The digests of the scope, and the receipt for them, in the pending manifest.
Write ==
  /\ At("write")
  /\ manifest' = [status |-> "pending", scope |-> [f \in Scope |-> disk[f]],
                  artifacts |-> [p \in Copied |-> copies[p].content]]
  /\ Proceed(Unchanged)
  /\ UNCHANGED <<world, process, runtime, source, runs, loaded>>

\* The pending manifest is validated as any other: the artifacts that it binds are there,
\* the fonts are those of the bundle, and what was recorded of the programs is in the
\* artifacts and in the lock ...
ArtifactsAreBound ==
  /\ \A p \in Copied : copies[p].content = manifest.artifacts[p]
  /\ manifest.artifacts["bundle"] = 0
  /\ \A p \in Programs \ {"fonts"} : manifest.artifacts[p] = tools[p]
FontsAreBound == manifest.artifacts["fonts"] = manifest.artifacts["bundle"]
ToolsAreLocked == \A p \in Programs : tools[p] = 0

\* ... and the scope is what the attestation is for.  The lock is hashed again; of the
\* corpus the units are read, which must be those that were captured.
ScopeIsBound == \A f \in Scope : manifest.scope[f] = 0
LockIsBound == disk["lock"] = manifest.scope["lock"]
UnitsAreBound == disk["corpus"] = loaded

Valid ==
  ArtifactsAreBound /\ FontsAreBound /\ ToolsAreLocked /\ ScopeIsBound /\ LockIsBound /\ UnitsAreBound
Accept ==
  /\ At("accept") /\ Proceed(Valid) /\ manifest' = IF Valid THEN manifest ELSE Nothing
  /\ UNCHANGED <<world, process, runtime, source, runs, loaded>>

Publish ==
  /\ At("publish") /\ manifest' = [manifest EXCEPT !.status = "READY"] /\ Proceed(TRUE)
  /\ UNCHANGED <<world, process, runtime, source, runs, loaded>>

-----------------------------------------------------------------------------
\* Somebody replaces a file, or puts it back.
Edit(f) ==
  /\ edits < MaxEdits /\ result = "running"
  /\ edits' = edits + 1
  /\ disk' = [disk EXCEPT ![f] = 1 - @]
  /\ UNCHANGED <<process, runtime, source, runs, portable, loaded, todo, manifest, result>>

\* A copy keeps the trace of it: its times.
EditCopy(p) ==
  /\ edits < MaxEdits /\ result = "running" /\ copies[p] # Nothing
  /\ edits' = edits + 1
  /\ copies' = [copies EXCEPT ![p] = [content |-> 1 - @.content, changed |-> @.changed + 1]]
  /\ UNCHANGED <<process, source, runs, portable, disk, loaded, tools, sealed, todo, manifest, result>>

Step ==
  \/ Enter \/ Resolve \/ CompareProfiles \/ Launch \/ Probe \/ RequireIsolation
  \/ List \/ Attest \/ Record \/ Copy \/ Install \/ Seal \/ Validate \/ Recheck \/ Relist
  \/ Hash \/ StageSource \/ Convert \/ Confirm \/ Browse \/ Measure \/ Shoot \/ RunSecurity
  \/ Compare \/ Write \/ Accept \/ Publish

Next == Step \/ (\E f \in Replaceable : Edit(f)) \/ (\E p \in Copied : EditCopy(p))

Spec == Init /\ [][Next]_vars

-----------------------------------------------------------------------------
Ready == manifest # Nothing /\ manifest.status = "READY"

(* What a READY manifest rests on is what was attested, whatever was        *)
(* replaced in the meantime and put back: the sources of both runs are the  *)
(* frozen ones, each artifact came from programs of the lock as far as they *)
(* ran from their copies, and the digests in the manifest are those of the  *)
(* attested scope; and a portable capture has run in the sandbox.  The      *)
(* units are those of the attested corpus, unless another version of it was *)
(* there when they were listed, at both revalidations and at the end, and   *)
(* not in between, which takes five replacements.                           *)
AsAttested ==
  Ready =>
    /\ loaded = 0 \/ edits >= 5
    /\ \A r \in {1, 2} : \A s \in Sources :
         LET m == made[<<r, s>>] IN m.source = 0 /\ m.converter = 0 /\ m.fonts = 0
    /\ \A f \in Scope : manifest.scope[f] = 0
    /\ \A p \in Copied : manifest.artifacts[p] = 0
    /\ portable => Isolated
=============================================================================
