---------------------------- MODULE ImageRelease ----------------------------
(***************************************************************************)
(* Publishing one version of the appliance image: the Docker release       *)
(* workflow (scripts/validate_docker_release.py, check_container_image.py, *)
(* check_release_scan.py, push_ghcr_image.py, resume_docker_release.py,    *)
(* docker_release_provenance.py) puts it in the GitHub registry and signs  *)
(* it, the mirror workflow (scripts/dockerhub_release.py) copies it to     *)
(* Docker Hub.                                                             *)
(*                                                                         *)
(* The workflows in .github/ fix the order of the scripts.  Publishing     *)
(* jobs of one version exclude each other, validation does not, and a      *)
(* mirror run excludes the other mirror runs.  A job may fail at every     *)
(* step, also after the registry took what it sent; then the job is run    *)
(* again, or a new run resumes from the published digest.                  *)
(***************************************************************************)
EXTENDS Naturals, Sequences

CONSTANTS
  Commits,      \* 1..n, ordered by ancestry
  MaxRuns,      \* bound: runs of the release workflow
  MaxAttempts,  \* bound: attempts of one run
  MaxBuilds,    \* bound: images built
  MaxMirrors,   \* bound: runs of the mirror workflow
  MaxFaults,    \* bound: steps that fail although their checks pass
  None

VARIABLES
  reviewed,  \* the publication environment asks for the owner's review
  main,      \* head of the main branch
  tagged,    \* commit the release tag points to
  images,    \* every image built: its source and whether it passes the checks
  stored,    \* digests in the GitHub registry
  ghcr,      \* digest under the version tag in the GitHub registry
  hub,       \* digest under the version tag on Docker Hub
  receipt,   \* digest and source in the notes and receipt of the release
  attested,  \* signed statements
  job,       \* runs of the release workflow
  mirror,    \* the mirror run
  mirrors, faults

vars ==
  <<reviewed, main, tagged, images, stored, ghcr, hub, receipt, attested, job, mirror, mirrors,
    faults>>

Foreign == 0  \* an image that another party put on Docker Hub
Runs == DOMAIN job

Init ==
  /\ reviewed \in BOOLEAN
  /\ main = 1 /\ tagged = 1
  /\ images = <<>> /\ stored = {}
  /\ ghcr = None
  /\ hub \in {None, Foreign}
  /\ receipt = None /\ attested = {}
  /\ job = <<>>
  /\ mirror = [pc |-> "idle"]
  /\ mirrors = 0 /\ faults = 0

Fault == faults < MaxFaults /\ faults' = faults + 1

-----------------------------------------------------------------------------
(* What the scripts check. *)

\* validate_publication_environment: nobody publishes without the owner's review.
Protected == reviewed

\* validate: the release is published for this source, on the main line.
Validated(src, head) == src = tagged /\ src <= head

\* The image declares the source it was built from.
Labelled(d, src) == images[d].src = src

\* inspect_root: the files and packages an image must and must not have.
Contents(d) == images[d].flaw # "contents"

\* Mutant: findings are reported and not evaluated.
ScannedAny(d) == TRUE

\* evaluate: no secret, and no serious finding that is not a reviewed, unfixed
\* one of the platform.
Scanned(d) == images[d].flaw # "finding"

\* _existing_release_digest: a version that is in the registry is not pushed.
Unpublished == ghcr = None

\* validate_origin: run o built and published digest d from the same workflow
\* commit, and in its last attempt only the provenance step failed.
ValidOrigin(o, src, d) ==
  /\ job[o].pc = "failed" /\ job[o].failed = "attest"
  /\ job[o].head = src
  /\ job[o].want = None
  /\ job[o].digest = d

\* predicate, verify: the statement of exactly this run about this digest.
Statement(r) ==
  [name |-> "ghcr", kind |-> "provenance", digest |-> job[r].digest, src |-> job[r].src,
   by |-> <<r, job[r].attempt>>]
Sbom(r) == [Statement(r) EXCEPT !.kind = "sbom"]
Verified(r) == {Statement(r), Sbom(r)} \subseteq attested

\* manifest: the digest a registry serves under the version.
Manifest(registry) == IF registry = "ghcr" THEN ghcr ELSE hub

\* statement: the signed statements of this kind about the digest.
Signed(name, kind, d) == {a \in attested : a.name = name /\ a.kind = kind /\ a.digest = d}

\* verify_source: some signed provenance binds the digest to this source.
SourceVerified(d, src) ==
  /\ \E a \in Signed("ghcr", "provenance", d) : a.src = src
  /\ Signed("ghcr", "sbom", d) # {}

\* validate_qualification: the receipt of the release names digest and source.
Qualification(d, src) == receipt = [digest |-> d, src |-> src]

-----------------------------------------------------------------------------
(* The release workflow. *)

Publishing == {"build", "bind", "existing", "qualify", "push", "pull", "attest", "sbom", "check"}

At(r, pc) == r \in Runs /\ job[r].pc = pc

Advance(r, pc) == job' = [job EXCEPT ![r].pc = pc]

\* The step that failed and the digest in its log, as far as a later run looks.
Fails(r) ==
  LET step == job[r].pc
  IN  job' = [job EXCEPT ![r].pc = "failed",
                         ![r].failed = IF step \in {"validate", "attest"} THEN step ELSE "other",
                         ![r].digest = IF step = "attest" THEN @ ELSE None]

\* A script that refuses ends the job at its step.
Checked(r, ok, pc) == IF ok THEN Advance(r, pc) ELSE Fails(r)

Elsewhere == <<reviewed, main, tagged, hub, receipt, mirror, mirrors>>

\* The maintainer asks for the source the tag names now, and may ask to resume
\* from a digest that some earlier run printed.
Dispatch ==
  /\ Len(job) < MaxRuns
  /\ \E want \in stored \union {None}, o \in Runs \union {None} :
       /\ want = None <=> o = None
       /\ job' = Append(job, [pc |-> "validate", src |-> tagged, head |-> main, want |-> want,
                              origin |-> o, digest |-> None, attempt |-> 1, failed |-> None])
  /\ UNCHANGED <<images, stored, ghcr, attested, faults, Elsewhere>>

Validate(r) ==
  /\ At(r, "validate")
  /\ Checked(r, Protected /\ Validated(job[r].src, job[r].head), "queued")
  /\ UNCHANGED <<images, stored, ghcr, attested, faults, Elsewhere>>

\* concurrency: docker-publish-<tag>.
Approve(r) ==
  /\ At(r, "queued")
  /\ \A o \in Runs : job[o].pc \notin Publishing
  /\ Advance(r, IF job[r].want = None THEN "build" ELSE "bind")
  /\ UNCHANGED <<images, stored, ghcr, attested, faults, Elsewhere>>

\* Builds without a cache: every build has a digest of its own.
Build(r) ==
  /\ At(r, "build")
  /\ Len(images) < MaxBuilds
  /\ \E flaw \in {None, "contents", "finding"} :
       images' = Append(images, [src |-> job[r].src, flaw |-> flaw])
  /\ job' = [job EXCEPT ![r].pc = "qualify", ![r].digest = Len(images) + 1]
  /\ UNCHANGED <<stored, ghcr, attested, faults, Elsewhere>>

Bind(r) ==
  /\ At(r, "bind")
  /\ Checked(r, ValidOrigin(job[r].origin, job[r].src, job[r].want), "existing")
  /\ UNCHANGED <<images, stored, ghcr, attested, faults, Elsewhere>>

PullExisting(r) ==
  /\ At(r, "existing")
  /\ IF ghcr = job[r].want /\ Labelled(job[r].want, job[r].src)
       THEN job' = [job EXCEPT ![r].pc = "qualify", ![r].digest = job[r].want]
       ELSE Fails(r)
  /\ UNCHANGED <<images, stored, ghcr, attested, faults, Elsewhere>>

Qualify(r) ==
  /\ At(r, "qualify")
  /\ Checked(r, Contents(job[r].digest) /\ Scanned(job[r].digest),
             IF job[r].want = None THEN "push" ELSE "pull")
  /\ UNCHANGED <<images, stored, ghcr, attested, faults, Elsewhere>>

\* push_digest: the registry takes the image; the push may be reported as
\* failed all the same.
Push(r) ==
  /\ At(r, "push")
  /\ Unpublished
  /\ ghcr' = job[r].digest /\ stored' = stored \union {job[r].digest}
  /\ \/ Advance(r, "pull") /\ UNCHANGED faults
     \/ Fault /\ Fails(r)
  /\ UNCHANGED <<images, attested, Elsewhere>>

PushRefused(r) ==
  /\ At(r, "push")
  /\ ~Unpublished
  /\ Fails(r)
  /\ UNCHANGED <<images, stored, ghcr, attested, faults, Elsewhere>>

VerifyPulled(r) ==
  /\ At(r, "pull")
  /\ Checked(r, Labelled(job[r].digest, job[r].src) /\ Contents(job[r].digest), "attest")
  /\ UNCHANGED <<images, stored, ghcr, attested, faults, Elsewhere>>

\* A statement may be recorded although its step is reported as failed.
Attest(r) ==
  /\ \/ At(r, "attest") /\ attested' = attested \union {Statement(r)}
     \/ At(r, "sbom") /\ attested' = attested \union {Sbom(r)}
  /\ \/ Advance(r, IF job[r].pc = "attest" THEN "sbom" ELSE "check") /\ UNCHANGED faults
     \/ Fault /\ Fails(r)
  /\ UNCHANGED <<images, stored, ghcr, Elsewhere>>

Verify(r) ==
  /\ At(r, "check")
  /\ Checked(r, Verified(r), "done")
  /\ UNCHANGED <<images, stored, ghcr, attested, faults, Elsewhere>>

\* The runner or a service fails before the step has an effect.
StepFails(r) ==
  /\ r \in Runs /\ job[r].pc \in Publishing \union {"validate"}
  /\ Fault
  /\ Fails(r)
  /\ UNCHANGED <<images, stored, ghcr, attested, Elsewhere>>

\* A job that failed is run again with the same inputs.
Rerun(r) ==
  /\ At(r, "failed")
  /\ job[r].attempt < MaxAttempts
  /\ job' = [job EXCEPT ![r].pc = IF job[r].failed = "validate" THEN "validate" ELSE "queued",
                        ![r].attempt = @ + 1, ![r].digest = None, ![r].failed = None]
  /\ UNCHANGED <<images, stored, ghcr, attested, faults, Elsewhere>>

-----------------------------------------------------------------------------
(* The mirror workflow. *)

Release == <<reviewed, main, tagged, images, stored, ghcr, receipt, job>>

Mirrors(pc) ==
  mirror' = IF pc \in {"done", "failed"} THEN [pc |-> pc] ELSE [mirror EXCEPT !.pc = pc]

\* The maintainer copies the digest from the notes of the release.
MirrorDispatch ==
  /\ mirror.pc \in {"idle", "done", "failed"}
  /\ mirrors < MaxMirrors /\ mirrors' = mirrors + 1
  /\ \E d \in stored :
       mirror' = [pc |-> "prepare", src |-> tagged, digest |-> d, head |-> main]
  /\ UNCHANGED <<hub, attested, faults, Release>>

Prepared ==
  /\ mirror.head = main
  /\ Protected
  /\ Validated(mirror.src, mirror.head)
  /\ Qualification(mirror.digest, mirror.src)
  /\ Manifest("ghcr") = mirror.digest

\* prepare runs before the approval and again after it.
MirrorPrepare ==
  /\ mirror.pc \in {"prepare", "approved"}
  /\ Mirrors(IF ~Prepared THEN "failed" ELSE IF mirror.pc = "prepare" THEN "evidence" ELSE "copy")
  /\ UNCHANGED <<hub, attested, mirrors, faults, Release>>

MirrorEvidence ==
  /\ mirror.pc = "evidence"
  /\ Mirrors(IF SourceVerified(mirror.digest, mirror.src) THEN "approved" ELSE "failed")
  /\ UNCHANGED <<hub, attested, mirrors, faults, Release>>

\* mirror: a version that is there is kept, or refused when it is another one.
MirrorCopy ==
  /\ mirror.pc = "copy"
  /\ IF Manifest("hub") \in {None, mirror.digest} /\ mirror.digest \in stored
        /\ Labelled(mirror.digest, mirror.src)
       THEN /\ hub' = mirror.digest
            /\ \/ Mirrors("sign") /\ UNCHANGED faults
               \/ Fault /\ Mirrors("failed")
       ELSE Mirrors("failed") /\ UNCHANGED <<hub, faults>>
  /\ UNCHANGED <<attested, mirrors, Release>>

MirrorStatement ==
  [name |-> "hub", kind |-> "mirror", digest |-> mirror.digest, src |-> mirror.src,
   by |-> <<mirrors, 1>>]

MirrorBill == [MirrorStatement EXCEPT !.kind = "sbom"]

\* The statement about the copy, then the verified bill of materials under the
\* name of the mirror; a step that is reported as failed may have signed.
MirrorSign ==
  /\ mirror.pc = "sign"
  /\ \/ /\ attested' = attested \union {MirrorStatement, MirrorBill}
        /\ Mirrors("verify") /\ UNCHANGED faults
     \/ /\ \/ attested' = attested \union {MirrorStatement}
           \/ attested' = attested \union {MirrorStatement, MirrorBill}
        /\ Fault /\ Mirrors("failed")
  /\ UNCHANGED <<hub, mirrors, Release>>

MirrorVerify ==
  /\ mirror.pc = "verify"
  /\ Mirrors(IF MirrorStatement \in Signed("hub", "mirror", mirror.digest)
                /\ MirrorBill \in Signed("hub", "sbom", mirror.digest)
                /\ Manifest("hub") = mirror.digest
                /\ Labelled(mirror.digest, mirror.src) THEN "done" ELSE "failed")
  /\ UNCHANGED <<hub, attested, mirrors, faults, Release>>

-----------------------------------------------------------------------------
(* The repository and the maintainer. *)

Merge ==
  /\ main + 1 \in Commits
  /\ main' = main + 1
  /\ UNCHANGED <<reviewed, tagged, images, stored, ghcr, hub, receipt, attested, job, mirror, mirrors,
                 faults>>

\* The tag may be moved to a later commit.
MoveTag ==
  /\ tagged < main
  /\ tagged' \in (tagged + 1)..main
  /\ UNCHANGED <<reviewed, main, images, stored, ghcr, hub, receipt, attested, job, mirror, mirrors,
                 faults>>

\* The receipt is written by hand after a qualification of a published image.
WriteReceipt ==
  /\ \E d \in stored : receipt' = [digest |-> d, src |-> images[d].src]
  /\ UNCHANGED <<reviewed, main, tagged, images, stored, ghcr, hub, attested, job, mirror, mirrors,
                 faults>>

RunStep(r) ==
  \/ Validate(r) \/ Approve(r) \/ Build(r) \/ Bind(r) \/ PullExisting(r) \/ Qualify(r)
  \/ Push(r) \/ PushRefused(r) \/ VerifyPulled(r) \/ Attest(r) \/ Verify(r) \/ StepFails(r)
  \/ Rerun(r)

MirrorStep ==
  MirrorDispatch \/ MirrorPrepare \/ MirrorEvidence \/ MirrorCopy \/ MirrorSign \/ MirrorVerify

Next ==
  \/ Dispatch
  \/ \E r \in 1..MaxRuns : RunStep(r)
  \/ MirrorStep
  \/ Merge \/ MoveTag \/ WriteReceipt

Spec == Init /\ [][Next]_vars

-----------------------------------------------------------------------------
\* Published statements name stored digests and runs that exist, and the tags
\* hold digests of images.
ReleaseTypeOK ==
  /\ ghcr \in stored \union {None}
  /\ hub \in stored \union {None, Foreign}
  /\ stored \subseteq DOMAIN images
  /\ \A a \in attested : a.digest \in stored /\ (a.name = "ghcr" => a.by[1] \in Runs)
  /\ \A r \in Runs : job[r].digest \in DOMAIN images \union {None}

\* A version in a registry is never replaced, whatever runs, repeated jobs and
\* resumed runs race for it (push_ghcr_image.py: "Version tags are never
\* overwritten").
KeepsVersions ==
  /\ ghcr # None => ghcr' = ghcr
  /\ hub # None => hub' = hub

\* Signed provenance is about the image under the version tag, names the source
\* that image was built from, and the image passed the content and scan checks:
\* also when the run resumed from a digest another run had published.
AttestedAsBuilt ==
  \A a \in attested : a.name = "ghcr" =>
    /\ a.digest = ghcr
    /\ a.src = images[a.digest].src
    /\ images[a.digest].flaw = None

\* What Docker Hub serves under the version, unless it was there before, is what
\* the GitHub registry serves, with signed provenance for its source.
MirrorIsVerified ==
  hub \notin {None, Foreign} => hub = ghcr /\ SourceVerified(hub, images[hub].src)
=============================================================================
