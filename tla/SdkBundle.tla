------------------------------ MODULE SdkBundle ------------------------------
(***************************************************************************)
(* The bundle of Windows SDK archives: made and published once by a        *)
(* maintainer (create_ and publish_windows_cross_sdk_bundle.sh), fetched   *)
(* and unpacked by every host that cross compiles                          *)
(* (setup_windows_cross_sdk.sh).  The scripts keep what they wrote when    *)
(* they are interrupted, take a file that exists for a file that is        *)
(* complete, and are simply run again.  One script at a time runs on a     *)
(* machine; maintainers share the release.                                 *)
(***************************************************************************)
EXTENDS Integers, Sequences

CONSTANTS
    Publishers,     \* machines of maintainers
    Contents,       \* what a bundle may hold
    ContentOf,      \* publisher -> what its bundle holds
    Pinned,         \* the content that has the sum WINDOWS_SDK_SHA256
    Archives,       \* the archives in the order of the bundle
    Requests,       \* the archives that runs of setup want, in order
    Absent,         \* no such file or asset
    MaxInterrupts   \* bound: how often a script is interrupted

(* whole: not cut short.  Files with one checksum are equal.                *)
Bundle == [of : Contents, whole : BOOLEAN]

PinnedBundle == [of |-> Pinned, whole |-> TRUE]

InBundle == {Archives[i] : i \in DOMAIN Archives}
Wanted == InBundle \cup UNION {{r[i] : i \in DOMAIN r} : r \in Requests}

ASSUME SdkAssumption ==
    /\ ContentOf \in [Publishers -> Contents]
    /\ Pinned \in Contents
    /\ Archives \in Seq(InBundle)
    /\ \A r \in Requests : r \in Seq(Wanted)
    /\ Absent \notin Bundle
    /\ MaxInterrupts \in Nat

VARIABLES
    script,      \* publisher -> the script it runs
    pc,          \* publisher -> where in the script
    code,        \* publisher -> exit code of the last script that ended
    output,      \* publisher -> OUTPUT of create, ASSET of publish
    released,    \* the release exists
    asset,       \* the asset of the release
    at,          \* where setup is
    request,     \* the archives it wants
    next,        \* the one fetch_extract() is at
    bundle,      \* the bundle on the host
    file,        \* archive -> "none", "partial" or "whole" in DOWNLOAD_DIR
    unpacked,    \* how many archives tar has written
    installed,   \* archives unpacked into their roots
    exit,        \* exit code of setup
    before,      \* history: file when this run began
    disturbed,   \* history: this run was interrupted or cut off
    interrupts

publishVars == <<script, pc, code, output, released, asset>>
setupVars == <<at, request, next, bundle, file, unpacked, installed, exit,
               before, disturbed>>
sdkVars == <<publishVars, setupVars, interrupts>>

SdkInit ==
    /\ script = [p \in Publishers |-> "none"]
    /\ pc = [p \in Publishers |-> "idle"]
    /\ code = [p \in Publishers |-> 0]
    /\ output = [p \in Publishers |-> Absent]
    /\ released = FALSE /\ asset = Absent
    /\ at = "idle" /\ request \in Requests /\ next = 1
    /\ bundle = Absent /\ file = [a \in Wanted |-> "none"]
    /\ unpacked = 0 /\ installed = {}
    /\ exit = 0 /\ before = file /\ disturbed = FALSE
    /\ interrupts = 0

-----------------------------------------------------------------------------
(* create and publish                                                       *)

Goto(p, label) == pc' = [pc EXCEPT ![p] = label]

PublisherExits(p, status) ==
    /\ Goto(p, "exited")
    /\ code' = [code EXCEPT ![p] = status]

(* Mutant: publish never calls create.                                      *)
StartWithoutCreate(p) ==
    /\ pc[p] \in {"idle", "exited"}
    /\ \E s \in {"create", "publish"} :
        /\ script' = [script EXCEPT ![p] = s]
        /\ Goto(p, IF s = "publish" THEN "view" ELSE "create")
    /\ code' = [code EXCEPT ![p] = 0]
    /\ UNCHANGED <<output, released, asset, setupVars, interrupts>>

(* publish skips create when the file is there.                             *)
StartScript(p) ==
    /\ pc[p] \in {"idle", "exited"}
    /\ \E s \in {"create", "publish"} :
        /\ script' = [script EXCEPT ![p] = s]
        /\ Goto(p, IF s = "publish" /\ output[p] # Absent THEN "view" ELSE "create")
    /\ code' = [code EXCEPT ![p] = 0]
    /\ UNCHANGED <<output, released, asset, setupVars, interrupts>>

(* tar -cf truncates OUTPUT ...                                             *)
TarOpens(p) ==
    /\ pc[p] = "create"
    /\ output' = [output EXCEPT ![p] = [of |-> ContentOf[p], whole |-> FALSE]]
    /\ Goto(p, "tar")
    /\ UNCHANGED <<script, code, released, asset, setupVars, interrupts>>

(* ... and has written it: create is over, publish goes on.                 *)
TarCloses(p) ==
    /\ pc[p] = "tar"
    /\ output' = [output EXCEPT ![p] = [of |-> ContentOf[p], whole |-> TRUE]]
    /\ IF script[p] = "publish"
       THEN Goto(p, "view") /\ UNCHANGED code
       ELSE PublisherExits(p, 0)
    /\ UNCHANGED <<script, released, asset, setupVars, interrupts>>

(* An archive is missing.                                                   *)
CreateFails(p) ==
    /\ pc[p] = "create"
    /\ PublisherExits(p, 1)
    /\ UNCHANGED <<script, output, released, asset, setupVars, interrupts>>

(* gh release view: also fails when GitHub cannot be reached.               *)
ViewRelease(p) ==
    /\ pc[p] = "view"
    /\ \/ released /\ Goto(p, "lookup")
       \/ Goto(p, "release")
    /\ UNCHANGED <<script, code, output, released, asset, setupVars, interrupts>>

(* gh release create: fails when another publisher was faster.              *)
CreateRelease(p) ==
    /\ pc[p] = "release"
    /\ IF released
       THEN PublisherExits(p, 1) /\ UNCHANGED released
       ELSE released' = TRUE /\ Goto(p, "lookup") /\ UNCHANGED code
    /\ UNCHANGED <<script, output, asset, setupVars, interrupts>>

(* Mutant: an asset that is there is good enough.                           *)
LookUpName(p) ==
    /\ pc[p] = "lookup"
    /\ IF asset = Absent
       THEN Goto(p, "upload") /\ UNCHANGED code
       ELSE PublisherExits(p, 0)
    /\ UNCHANGED <<script, output, released, asset, setupVars, interrupts>>

(* The digests of the published asset and of the local one.                 *)
LookUp(p) ==
    /\ pc[p] = "lookup"
    /\ IF asset = Absent
       THEN Goto(p, "upload") /\ UNCHANGED code
       ELSE PublisherExits(p, IF asset = output[p] THEN 0 ELSE 1)
    /\ UNCHANGED <<script, output, released, asset, setupVars, interrupts>>

(* Mutant: gh release upload --clobber.                                     *)
UploadClobber(p) ==
    /\ pc[p] = "upload"
    /\ asset' = output[p] /\ PublisherExits(p, 0)
    /\ UNCHANGED <<script, output, released, setupVars, interrupts>>

(* gh release upload: another publisher may have come first, and the answer *)
(* to a successful upload may be lost.                                      *)
Upload(p) ==
    /\ pc[p] = "upload"
    /\ IF asset # Absent
       THEN PublisherExits(p, 1) /\ UNCHANGED asset
       ELSE asset' = output[p] /\ \E status \in {0, 1} : PublisherExits(p, status)
    /\ UNCHANGED <<script, output, released, setupVars, interrupts>>

(* set -e: a gh command fails without effect.                               *)
GhFails(p) ==
    /\ pc[p] \in {"release", "lookup", "upload"}
    /\ PublisherExits(p, 1)
    /\ UNCHANGED <<script, output, released, asset, setupVars, interrupts>>

InterruptPublisher(p) ==
    /\ pc[p] \notin {"idle", "exited"} /\ interrupts < MaxInterrupts
    /\ Goto(p, "idle")
    /\ interrupts' = interrupts + 1
    /\ UNCHANGED <<script, code, output, released, asset, setupVars>>

Publish(p) ==
    \/ StartScript(p) \/ TarOpens(p) \/ TarCloses(p) \/ CreateFails(p)
    \/ ViewRelease(p) \/ CreateRelease(p) \/ LookUp(p) \/ Upload(p) \/ GhFails(p)
    \/ InterruptPublisher(p)

-----------------------------------------------------------------------------
(* setup                                                                    *)

SetupExits(status) == at' = "exited" /\ exit' = status

Wants == request[next]

StartSetup ==
    /\ at \in {"idle", "exited"}
    /\ request' \in Requests
    /\ next' = 1 /\ at' = "fetch"
    /\ unpacked' = 0 /\ exit' = 0
    /\ before' = file /\ disturbed' = FALSE
    /\ UNCHANGED <<publishVars, bundle, file, installed, interrupts>>

(* fetch_extract(): the archive is not there yet.                           *)
FetchMissing ==
    /\ at = "fetch" /\ next <= Len(request) /\ file[Wants] = "none"
    /\ at' = "download"
    /\ UNCHANGED <<publishVars, request, next, bundle, file, unpacked, installed,
                   exit, before, disturbed, interrupts>>

(* Mutant: the pipe to zstd hides that it failed.                           *)
ExtractAnyway ==
    /\ \/ at = "fetch" /\ next <= Len(request) /\ file[Wants] # "none"
       \/ at = "provided"
    /\ IF file[Wants] # "none"
       THEN /\ installed' = installed \cup {Wants}
            /\ next' = next + 1 /\ at' = "fetch"
            /\ UNCHANGED exit
       ELSE SetupExits(1) /\ UNCHANGED <<installed, next>>
    /\ UNCHANGED <<publishVars, request, bundle, file, unpacked, before, disturbed,
                   interrupts>>

(* tar -I zstd -xf fails on a partial archive; one that the bundle did not  *)
(* provide is an error.                                                     *)
Extract ==
    /\ \/ at = "fetch" /\ next <= Len(request) /\ file[Wants] # "none"
       \/ at = "provided"
    /\ IF file[Wants] = "whole"
       THEN /\ installed' = installed \cup {Wants}
            /\ next' = next + 1 /\ at' = "fetch"
            /\ UNCHANGED exit
       ELSE SetupExits(1) /\ UNCHANGED <<installed, next>>
    /\ UNCHANGED <<publishVars, request, bundle, file, unpacked, before, disturbed,
                   interrupts>>

(* curl -f: nothing is published.                                           *)
CurlNotFound ==
    /\ at = "download" /\ bundle = Absent /\ asset = Absent
    /\ SetupExits(1)
    /\ UNCHANGED <<publishVars, request, next, bundle, file, unpacked, installed,
                   before, disturbed, interrupts>>

(* curl -o writes the bundle in place ...                                   *)
CurlOpens ==
    /\ at = "download" /\ bundle = Absent /\ asset # Absent
    /\ bundle' = [asset EXCEPT !.whole = FALSE]
    /\ at' = "curl"
    /\ UNCHANGED <<publishVars, request, next, file, unpacked, installed, exit,
                   before, disturbed, interrupts>>

(* ... until it has all of it, or the last retry breaks off.                *)
CurlCloses ==
    /\ at = "curl"
    /\ \/ bundle' = asset /\ at' = "check" /\ UNCHANGED <<exit, disturbed>>
       \/ SetupExits(1) /\ disturbed' = TRUE /\ UNCHANGED bundle
    /\ UNCHANGED <<publishVars, request, next, file, unpacked, installed, before,
                   interrupts>>

UseBundle ==
    /\ at = "download" /\ bundle # Absent
    /\ at' = "check"
    /\ UNCHANGED <<publishVars, request, next, bundle, file, unpacked, installed,
                   exit, before, disturbed, interrupts>>

(* Mutant: the sum is left to the archives' own SHA256SUMS.                 *)
CheckNothing ==
    /\ at = "check"
    /\ at' = "tar" /\ unpacked' = 0
    /\ UNCHANGED <<publishVars, request, next, bundle, file, installed, exit, before,
                   disturbed, interrupts>>

(* Mutant: a bundle with another sum is fetched again.                      *)
CheckAndRetry ==
    /\ at = "check"
    /\ IF bundle = PinnedBundle
       THEN at' = "tar" /\ unpacked' = 0 /\ UNCHANGED bundle
       ELSE at' = "download" /\ bundle' = Absent /\ UNCHANGED unpacked
    /\ UNCHANGED <<publishVars, request, next, file, installed, exit, before,
                   disturbed, interrupts>>

(* sha256sum --check of the bundle.                                         *)
CheckBundle ==
    /\ at = "check"
    /\ IF bundle = PinnedBundle
       THEN at' = "tar" /\ unpacked' = 0 /\ UNCHANGED exit
       ELSE SetupExits(1) /\ UNCHANGED unpacked
    /\ UNCHANGED <<publishVars, request, next, bundle, file, installed, before,
                   disturbed, interrupts>>

(* tar -xf replaces one archive after the other.                            *)
UnpackOpens ==
    /\ at = "tar" /\ unpacked < Len(Archives)
    /\ file' = [file EXCEPT ![Archives[unpacked + 1]] = "partial"]
    /\ at' = "untar"
    /\ UNCHANGED <<publishVars, request, next, bundle, unpacked, installed, exit,
                   before, disturbed, interrupts>>

UnpackCloses ==
    /\ at = "untar"
    /\ file' = [file EXCEPT ![Archives[unpacked + 1]] = "whole"]
    /\ unpacked' = unpacked + 1
    /\ at' = "tar"
    /\ UNCHANGED <<publishVars, request, next, bundle, installed, exit, before,
                   disturbed, interrupts>>

(* sha256sum --check SHA256SUMS: all that tar has just written.             *)
CheckArchives ==
    /\ at = "tar" /\ unpacked = Len(Archives)
    /\ IF \A a \in InBundle : file[a] = "whole"
       THEN at' = "provided" /\ UNCHANGED exit
       ELSE SetupExits(1)
    /\ UNCHANGED <<publishVars, request, next, bundle, file, unpacked, installed,
                   before, disturbed, interrupts>>

SetupDone ==
    /\ at = "fetch" /\ next > Len(request)
    /\ SetupExits(0)
    /\ UNCHANGED <<publishVars, request, next, bundle, file, unpacked, installed,
                   before, disturbed, interrupts>>

InterruptSetup ==
    /\ at \notin {"idle", "exited"} /\ interrupts < MaxInterrupts
    /\ at' = "idle" /\ disturbed' = TRUE
    /\ interrupts' = interrupts + 1
    /\ UNCHANGED <<publishVars, request, next, bundle, file, unpacked, installed,
                   exit, before>>

SetupStep ==
    \/ FetchMissing \/ Extract \/ CurlNotFound \/ CurlOpens \/ CurlCloses
    \/ UseBundle \/ CheckBundle \/ UnpackOpens \/ UnpackCloses \/ CheckArchives
    \/ SetupDone

SdkNext ==
    \/ \E p \in Publishers : Publish(p)
    \/ StartSetup
    \/ SetupStep
    \/ InterruptSetup

(* A script that runs is scheduled; nobody has to start one.                *)
SdkSpec == SdkInit /\ [][SdkNext]_sdkVars /\ WF_sdkVars(SetupStep)

-----------------------------------------------------------------------------

(* The files, the release and where the scripts are.                        *)
SdkTypeOK ==
    /\ script \in [Publishers -> {"none", "create", "publish"}]
    /\ pc \in [Publishers -> {"idle", "create", "tar", "view", "release", "lookup",
                              "upload", "exited"}]
    /\ code \in [Publishers -> {0, 1}]
    /\ output \in [Publishers -> Bundle \cup {Absent}]
    /\ \A p \in Publishers :
            pc[p] \in {"view", "release", "lookup", "upload"} => output[p] # Absent
    /\ released \in BOOLEAN /\ asset \in Bundle \cup {Absent}
    /\ asset # Absent => released
    /\ at \in {"idle", "fetch", "download", "curl", "check", "tar", "untar",
               "provided", "exited"}
    /\ request \in Requests /\ next \in 1 .. Len(request) + 1
    /\ at \in {"download", "curl", "check", "tar", "untar", "provided"} =>
            next <= Len(request)
    /\ bundle \in Bundle \cup {Absent}
    /\ file \in [Wanted -> {"none", "partial", "whole"}]
    /\ before \in [Wanted -> {"none", "partial", "whole"}]
    /\ unpacked \in 0 .. Len(Archives)
    /\ at = "untar" => unpacked < Len(Archives)
    /\ installed \subseteq Wanted
    /\ exit \in {0, 1} /\ disturbed \in BOOLEAN
    /\ interrupts \in 0 .. MaxInterrupts

(* An asset is immutable once it is there, however many publishers have     *)
(* looked it up before (publish's lookup and upload; "Existing asset names  *)
(* are never overwritten").                                                 *)
AssetNeverOverwritten == [][asset # Absent => asset' = asset]_asset

(* publish succeeds only if what is on the release is what it has on disk,  *)
(* whoever published it (the comparison of the digests).                    *)
PublishTruthful ==
    \A p \in Publishers :
        pc[p] = "exited" /\ script[p] = "publish" /\ code[p] = 0 =>
            asset # Absent /\ asset = output[p]

(* Nothing on the host comes from a bundle without the pinned sum: not from *)
(* one that create or curl left cut short, nor from another publisher's     *)
(* (download_sdk_bundle()).                                                 *)
NothingUnpinnedUnpacked ==
    installed # {} \/ (\E a \in Wanted : file[a] # "none") => bundle = PinnedBundle

(* The place of the first wanted archive that is not whole.                 *)
Gaps == {i \in DOMAIN request : before[request[i]] # "whole"}

(* A run that nothing disturbs succeeds, and has then installed everything, *)
(* exactly when the first archive it misses is not there at all and the     *)
(* bundle is good: one that an earlier run left cut short makes every later *)
(* run fail, unless another archive is missing before it                    *)
(* (fetch_extract(), download_sdk_bundle()).                                *)
SetupOutcome ==
    at = "exited" /\ ~ disturbed =>
        /\ exit = 0 <=>
            \/ Gaps = {}
            \/ /\ \E i \in Gaps : before[request[i]] = "none" /\ \A j \in Gaps : i <= j
               /\ bundle = PinnedBundle
               /\ \A i \in DOMAIN request : request[i] \in InBundle
        /\ exit = 0 => \A i \in DOMAIN request : request[i] \in installed

(* A run of setup ends.                                                     *)
SetupEnds == at = "fetch" ~> at \in {"exited", "idle"}

=============================================================================
