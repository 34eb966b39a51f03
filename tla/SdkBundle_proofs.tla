--------------------------- MODULE SdkBundle_proofs ---------------------------
(***************************************************************************)
(* Proofs about the scripts of the Windows SDK bundle, for any number of   *)
(* publishers, archives, requests and interruptions.                       *)
(*                                                                         *)
(* The steps of the publishers and those of setup change different         *)
(* variables.  For the publishers the types have to say when the release   *)
(* exists; for setup, where the bundle on the host is known to be good     *)
(* (HostInv) and what a run that nothing disturbed has found so far        *)
(* (RunInv): either no file has changed since it began and the archives    *)
(* before the one it is at were whole, or the first archive it missed was  *)
(* not there at all and the bundle has replaced every archive.             *)
(***************************************************************************)
EXTENDS SdkBundle, SequenceTheorems, TLAPS

(* The release exists wherever a publisher relies on it.                    *)
ReleasedInv == \A p \in Publishers : pc[p] \in {"lookup", "upload"} => released

TypeInv == SdkTypeOK /\ ReleasedInv

LEMMA PinnedIsBundle == PinnedBundle \in Bundle /\ PinnedBundle # Absent
<1>1. PinnedBundle \in Bundle
    BY SdkAssumption DEF PinnedBundle, Bundle
<1> QED
    BY <1>1, SdkAssumption

LEMMA PublishOnly ==
    ASSUME NEW p \in Publishers, Publish(p)
    PROVE  UNCHANGED setupVars
    BY DEF Publish, StartScript, TarOpens, TarCloses, CreateFails, ViewRelease,
           CreateRelease, LookUp, Upload, GhFails, InterruptPublisher

LEMMA SetupOnly ==
    ASSUME StartSetup \/ SetupStep \/ InterruptSetup
    PROVE  UNCHANGED publishVars
    BY DEF StartSetup, SetupStep, FetchMissing, Extract, CurlNotFound, CurlOpens,
           CurlCloses, UseBundle, CheckBundle, UnpackOpens, UnpackCloses, CheckArchives,
           SetupDone, InterruptSetup

-----------------------------------------------------------------------------

(* The types, in two parts.                                                 *)
PublishTypes ==
    /\ script \in [Publishers -> {"none", "create", "publish"}]
    /\ pc \in [Publishers -> {"idle", "create", "tar", "view", "release", "lookup",
                              "upload", "exited"}]
    /\ code \in [Publishers -> {0, 1}]
    /\ output \in [Publishers -> Bundle \cup {Absent}]
    /\ \A p \in Publishers :
            pc[p] \in {"view", "release", "lookup", "upload"} => output[p] # Absent
    /\ released \in BOOLEAN /\ asset \in Bundle \cup {Absent}
    /\ asset # Absent => released
    /\ ReleasedInv

SetupTypes ==
    /\ at \in {"idle", "fetch", "download", "curl", "check", "tar", "untar",
               "provided", "exited"}
    /\ request \in Requests /\ next \in 1 .. Len(request) + 1
    /\ at \in {"download", "curl", "check", "tar", "untar", "provided"} =>
            next <= Len(request)
    /\ bundle \in Bundle \cup {Absent}
    /\ file \in [Wanted -> {"none", "partial", "whole"}]
    /\ before \in [Wanted -> {"none", "partial", "whole"}]
    /\ unpacked \in 0 .. Len(Archives)
    /\ at = "untar" => unpacked < Len(Archives)
    /\ installed \subseteq Wanted
    /\ exit \in {0, 1} /\ disturbed \in BOOLEAN

LEMMA TypeParts == TypeInv <=> PublishTypes /\ SetupTypes /\ interrupts \in 0 .. MaxInterrupts
    BY DEF TypeInv, SdkTypeOK, PublishTypes, SetupTypes

(* The archives of a request and of the bundle are wanted.                  *)
LEMMA WantedTypes ==
    /\ \A r \in Requests : /\ r \in Seq(Wanted) /\ Len(r) \in Nat
                           /\ DOMAIN r = 1 .. Len(r)
                           /\ \A i \in 1 .. Len(r) : r[i] \in Wanted
    /\ Len(Archives) \in Nat /\ DOMAIN Archives = 1 .. Len(Archives)
    /\ \A k \in 1 .. Len(Archives) : Archives[k] \in InBundle
    /\ InBundle \subseteq Wanted
<1>1. ASSUME NEW r \in Requests
      PROVE  /\ r \in Seq(Wanted) /\ Len(r) \in Nat
             /\ DOMAIN r = 1 .. Len(r)
             /\ \A i \in 1 .. Len(r) : r[i] \in Wanted
    BY SdkAssumption, LenProperties, ElementOfSeq
<1>2. Archives \in Seq(InBundle)
    BY SdkAssumption
<1>3. /\ Len(Archives) \in Nat /\ DOMAIN Archives = 1 .. Len(Archives)
      /\ \A k \in 1 .. Len(Archives) : Archives[k] \in InBundle
    BY <1>2, LenProperties, ElementOfSeq
<1> QED
    BY <1>1, <1>3 DEF Wanted

LEMMA InitTypes == SdkInit => TypeInv
<1> SUFFICES ASSUME SdkInit PROVE TypeInv
    OBVIOUS
<1>1. PublishTypes
    BY DEF SdkInit, PublishTypes, ReleasedInv
<1>2. SetupTypes
    <2>1. next \in 1 .. Len(request) + 1 /\ unpacked \in 0 .. Len(Archives)
        BY WantedTypes DEF SdkInit
    <2>2. file \in [Wanted -> {"none", "partial", "whole"}] /\ before = file
        BY DEF SdkInit
    <2> QED
        BY <2>1, <2>2 DEF SdkInit, SetupTypes
<1>3. interrupts \in 0 .. MaxInterrupts
    BY SdkAssumption DEF SdkInit
<1> QED
    BY <1>1, <1>2, <1>3, TypeParts

LEMMA PublishKeepsTypes ==
    ASSUME PublishTypes, NEW p \in Publishers, Publish(p)
    PROVE  PublishTypes'
<1>1. CASE StartScript(p)
    BY <1>1 DEF StartScript, Goto, PublishTypes, ReleasedInv
<1>2. CASE TarOpens(p)
    <2>1. [of |-> ContentOf[p], whole |-> FALSE] \in Bundle
        BY SdkAssumption DEF Bundle
    <2> QED
        BY <1>2, <2>1, SdkAssumption DEF TarOpens, Goto, PublishTypes, ReleasedInv
<1>3. CASE TarCloses(p)
    <2>1. [of |-> ContentOf[p], whole |-> TRUE] \in Bundle
        BY SdkAssumption DEF Bundle
    <2> QED
        BY <1>3, <2>1, SdkAssumption
           DEF TarCloses, Goto, PublisherExits, PublishTypes, ReleasedInv
<1>4. CASE CreateFails(p)
    BY <1>4 DEF CreateFails, Goto, PublisherExits, PublishTypes, ReleasedInv
<1>5. CASE ViewRelease(p)
    BY <1>5 DEF ViewRelease, Goto, PublishTypes, ReleasedInv
<1>6. CASE CreateRelease(p)
    BY <1>6 DEF CreateRelease, Goto, PublisherExits, PublishTypes, ReleasedInv
<1>7. CASE LookUp(p)
    BY <1>7 DEF LookUp, Goto, PublisherExits, PublishTypes, ReleasedInv
<1>8. CASE Upload(p)
    BY <1>8 DEF Upload, Goto, PublisherExits, PublishTypes, ReleasedInv
<1>9. CASE GhFails(p)
    BY <1>9 DEF GhFails, Goto, PublisherExits, PublishTypes, ReleasedInv
<1>10. CASE InterruptPublisher(p)
    BY <1>10 DEF InterruptPublisher, Goto, PublishTypes, ReleasedInv
<1> QED
    BY <1>1, <1>2, <1>3, <1>4, <1>5, <1>6, <1>7, <1>8, <1>9, <1>10 DEF Publish

LEMMA SetupKeepsTypes ==
    ASSUME SetupTypes, PublishTypes, StartSetup \/ SetupStep \/ InterruptSetup
    PROVE  SetupTypes'
<1> USE WantedTypes DEF SetupTypes
<1>1. CASE StartSetup
    <2>1. request' \in Requests /\ next' = 1 /\ Len(request') \in Nat
        BY <1>1 DEF StartSetup
    <2>2. next' \in 1 .. Len(request') + 1 /\ unpacked' \in 0 .. Len(Archives)
        BY <1>1, <2>1 DEF StartSetup
    <2>3. /\ bundle' = bundle /\ file' = file /\ before' = file /\ installed' = installed
          /\ at' = "fetch" /\ exit' = 0 /\ disturbed' = FALSE
        BY <1>1 DEF StartSetup
    <2> QED
        BY <2>1, <2>2, <2>3
<1>2. CASE FetchMissing
    BY <1>2 DEF FetchMissing
<1>3. CASE Extract
    <2>1. next <= Len(request) /\ Wants \in Wanted
        BY <1>3 DEF Extract, Wants
    <2>2. /\ request' = request /\ bundle' = bundle /\ file' = file /\ before' = before
          /\ unpacked' = unpacked /\ disturbed' = disturbed
        BY <1>3 DEF Extract
    <2>3. CASE file[Wants] = "whole"
        BY <1>3, <2>1, <2>2, <2>3 DEF Extract
    <2>4. CASE file[Wants] # "whole"
        BY <1>3, <2>1, <2>2, <2>4 DEF Extract, SetupExits
    <2> QED
        BY <2>3, <2>4
<1>4. CASE CurlNotFound
    BY <1>4 DEF CurlNotFound, SetupExits
<1>5. CASE CurlOpens
    <2>1. [asset EXCEPT !.whole = FALSE] \in Bundle
        BY <1>5 DEF CurlOpens, PublishTypes, Bundle
    <2> QED
        BY <1>5, <2>1 DEF CurlOpens
<1>6. CASE CurlCloses
    BY <1>6 DEF CurlCloses, SetupExits, PublishTypes
<1>7. CASE UseBundle
    BY <1>7 DEF UseBundle
<1>8. CASE CheckBundle
    BY <1>8 DEF CheckBundle, SetupExits
<1>9. CASE UnpackOpens
    BY <1>9 DEF UnpackOpens
<1>10. CASE UnpackCloses
    BY <1>10 DEF UnpackCloses
<1>11. CASE CheckArchives
    BY <1>11 DEF CheckArchives, SetupExits
<1>12. CASE SetupDone
    BY <1>12 DEF SetupDone, SetupExits
<1>13. CASE InterruptSetup
    BY <1>13 DEF InterruptSetup
<1> QED
    BY <1>1, <1>2, <1>3, <1>4, <1>5, <1>6, <1>7, <1>8, <1>9, <1>10, <1>11, <1>12, <1>13
       DEF SetupStep

LEMMA NextTypes == TypeInv /\ [SdkNext]_sdkVars => TypeInv'
<1> SUFFICES ASSUME TypeInv, [SdkNext]_sdkVars PROVE TypeInv'
    OBVIOUS
<1>1. PublishTypes /\ SetupTypes /\ interrupts \in 0 .. MaxInterrupts
    BY TypeParts
<1>2. interrupts' \in 0 .. MaxInterrupts
    <2>1. interrupts' = interrupts \/ (interrupts < MaxInterrupts /\ interrupts' = interrupts + 1)
        BY DEF SdkNext, sdkVars, Publish, StartScript, TarOpens, TarCloses, CreateFails,
               ViewRelease, CreateRelease, LookUp, Upload, GhFails, InterruptPublisher,
               StartSetup, SetupStep, FetchMissing, Extract, CurlNotFound, CurlOpens,
               CurlCloses, UseBundle, CheckBundle, UnpackOpens, UnpackCloses,
               CheckArchives, SetupDone, InterruptSetup
    <2> QED
        BY <1>1, <2>1, SdkAssumption
<1>3. PublishTypes' /\ SetupTypes'
    <2>1. ASSUME NEW p \in Publishers, Publish(p) PROVE PublishTypes' /\ SetupTypes'
        BY <1>1, <2>1, PublishKeepsTypes, PublishOnly DEF SetupTypes, setupVars
    <2>2. CASE StartSetup \/ SetupStep \/ InterruptSetup
        <3>1. PublishTypes'
            BY <1>1, <2>2, SetupOnly DEF PublishTypes, ReleasedInv, publishVars
        <3> QED
            BY <1>1, <2>2, <3>1, SetupKeepsTypes
    <2>3. CASE UNCHANGED sdkVars
        BY <1>1, <2>3 DEF PublishTypes, ReleasedInv, SetupTypes, sdkVars, publishVars, setupVars
    <2> QED
        BY <2>1, <2>2, <2>3 DEF SdkNext
<1> QED
    BY <1>2, <1>3 DEF TypeInv, SdkTypeOK, PublishTypes, SetupTypes

(* Types, which include where files and the release are known to exist.     *)
THEOREM SdkTypeCorrect == SdkSpec => []SdkTypeOK
<1>1. SdkInit => TypeInv
    BY InitTypes
<1>2. TypeInv /\ [SdkNext]_sdkVars => TypeInv'
    BY NextTypes
<1>3. TypeInv => SdkTypeOK
    BY DEF TypeInv
<1> QED
    BY <1>1, <1>2, <1>3, PTL DEF SdkSpec

-----------------------------------------------------------------------------

(* publish never replaces an asset that is there ("Existing asset names are *)
(* never overwritten").                                                     *)
THEOREM AssetNeverOverwrittenHolds == SdkSpec => AssetNeverOverwritten
<1>1. ASSUME [SdkNext]_sdkVars
      PROVE  [asset # Absent => asset' = asset]_asset
    <2>1. ASSUME NEW p \in Publishers, Publish(p)
          PROVE  asset # Absent => asset' = asset
        BY <2>1 DEF Publish, StartScript, TarOpens, TarCloses, CreateFails, ViewRelease,
                    CreateRelease, LookUp, Upload, GhFails, InterruptPublisher
    <2>2. CASE StartSetup \/ SetupStep \/ InterruptSetup
        BY <2>2, SetupOnly DEF publishVars
    <2> QED
        BY <1>1, <2>1, <2>2 DEF SdkNext, sdkVars, publishVars
<1> QED
    BY <1>1, PTL DEF SdkSpec, AssetNeverOverwritten

LEMMA PublishStaysTruthful ==
    ASSUME PublishTypes, PublishTruthful, NEW p \in Publishers, Publish(p)
    PROVE  PublishTruthful'
<1> SUFFICES ASSUME NEW q \in Publishers,
                    pc'[q] = "exited", script'[q] = "publish", code'[q] = 0
             PROVE  asset' # Absent /\ asset' = output'[q]
    BY DEF PublishTruthful
<1>1. CASE q # p
    <2>1. /\ pc'[q] = pc[q] /\ script'[q] = script[q] /\ code'[q] = code[q]
          /\ output'[q] = output[q]
        BY <1>1 DEF Publish, StartScript, TarOpens, TarCloses, CreateFails, ViewRelease,
                    CreateRelease, LookUp, Upload, GhFails, InterruptPublisher, Goto,
                    PublisherExits, PublishTypes
    <2>2. asset # Absent /\ asset = output[q]
        BY <2>1 DEF PublishTruthful
    <2>3. asset' = asset
        BY <2>2 DEF Publish, StartScript, TarOpens, TarCloses, CreateFails, ViewRelease,
                    CreateRelease, LookUp, Upload, GhFails, InterruptPublisher
    <2> QED
        BY <2>1, <2>2, <2>3
<1>2. CASE q = p
    <2> USE <1>2 DEF Goto, PublisherExits, PublishTypes
    <2>1. CASE StartScript(p)
        BY <2>1 DEF StartScript
    <2>2. CASE TarOpens(p)
        BY <2>2 DEF TarOpens
    <2>3. CASE TarCloses(p)
        BY <2>3 DEF TarCloses
    <2>4. CASE CreateFails(p)
        BY <2>4 DEF CreateFails
    <2>5. CASE ViewRelease(p)
        BY <2>5 DEF ViewRelease
    <2>6. CASE CreateRelease(p)
        BY <2>6 DEF CreateRelease
    <2>7. CASE LookUp(p)
        BY <2>7 DEF LookUp
    <2>8. CASE Upload(p)
        BY <2>8 DEF Upload
    <2>9. CASE GhFails(p)
        BY <2>9 DEF GhFails
    <2>10. CASE InterruptPublisher(p)
        BY <2>10 DEF InterruptPublisher
    <2> QED
        BY <2>1, <2>2, <2>3, <2>4, <2>5, <2>6, <2>7, <2>8, <2>9, <2>10 DEF Publish
<1> QED
    BY <1>1, <1>2

(* publish exits with 0 only if the release holds what its machine has.     *)
THEOREM PublishTruthfulHolds == SdkSpec => []PublishTruthful
<1>1. SdkInit => PublishTruthful
    BY DEF SdkInit, PublishTruthful
<1>2. TypeInv /\ PublishTruthful /\ [SdkNext]_sdkVars => PublishTruthful'
    <2> SUFFICES ASSUME TypeInv, PublishTruthful, [SdkNext]_sdkVars PROVE PublishTruthful'
        OBVIOUS
    <2>1. ASSUME NEW p \in Publishers, Publish(p) PROVE PublishTruthful'
        BY <2>1, TypeParts, PublishStaysTruthful
    <2>2. CASE StartSetup \/ SetupStep \/ InterruptSetup
        BY <2>2, SetupOnly DEF PublishTruthful, publishVars
    <2>3. CASE UNCHANGED sdkVars
        BY <2>3 DEF PublishTruthful, sdkVars, publishVars
    <2> QED
        BY <2>1, <2>2, <2>3 DEF SdkNext
<1>3. SdkInit => TypeInv
    BY InitTypes
<1>4. TypeInv /\ [SdkNext]_sdkVars => TypeInv'
    BY NextTypes
<1> QED
    BY <1>1, <1>2, <1>3, <1>4, PTL DEF SdkSpec

-----------------------------------------------------------------------------

(* Where the bundle on the host is known to be good, or known not to be.    *)
HostInv ==
    /\ at = "curl" => bundle # Absent /\ bundle # PinnedBundle
    /\ at \in {"tar", "untar", "provided"} => bundle = PinnedBundle
    /\ NothingUnpinnedUnpacked

LEMMA SetupKeepsHost ==
    ASSUME TypeInv, HostInv, StartSetup \/ SetupStep \/ InterruptSetup
    PROVE  HostInv'
<1>0. PublishTypes /\ SetupTypes
    BY TypeParts
<1> USE <1>0 DEF HostInv, NothingUnpinnedUnpacked
<1>1. CASE StartSetup
    BY <1>1 DEF StartSetup
<1>2. CASE FetchMissing
    BY <1>2 DEF FetchMissing
<1>3. CASE Extract
    <2>1. bundle' = bundle /\ file' = file /\ at' \in {"fetch", "exited"}
        BY <1>3 DEF Extract, SetupExits
    <2>2. installed' # installed => file[Wants] # "none" /\ Wants \in Wanted
        BY <1>3, WantedTypes DEF Extract, Wants, SetupTypes
    <2> QED
        BY <2>1, <2>2
<1>4. CASE CurlNotFound
    BY <1>4 DEF CurlNotFound, SetupExits
<1>5. CASE CurlOpens
    <2>1. asset \in Bundle /\ bundle = Absent
        BY <1>5 DEF CurlOpens, PublishTypes
    <2>2. [asset EXCEPT !.whole = FALSE] \in Bundle /\ [asset EXCEPT !.whole = FALSE] # PinnedBundle
        BY <2>1 DEF Bundle, PinnedBundle
    <2>3. installed = {} /\ \A a \in Wanted : file[a] = "none"
        BY <2>1, PinnedIsBundle
    <2> QED
        BY <1>5, <2>2, <2>3, SdkAssumption DEF CurlOpens
<1>6. CASE CurlCloses
    <2>1. installed = {} /\ \A a \in Wanted : file[a] = "none"
        BY <1>6 DEF CurlCloses
    <2> QED
        BY <1>6, <2>1 DEF CurlCloses, SetupExits
<1>7. CASE UseBundle
    BY <1>7 DEF UseBundle
<1>8. CASE CheckBundle
    BY <1>8 DEF CheckBundle, SetupExits
<1>9. CASE UnpackOpens
    BY <1>9 DEF UnpackOpens
<1>10. CASE UnpackCloses
    BY <1>10 DEF UnpackCloses
<1>11. CASE CheckArchives
    BY <1>11 DEF CheckArchives, SetupExits
<1>12. CASE SetupDone
    BY <1>12 DEF SetupDone, SetupExits
<1>13. CASE InterruptSetup
    BY <1>13 DEF InterruptSetup
<1> QED
    BY <1>1, <1>2, <1>3, <1>4, <1>5, <1>6, <1>7, <1>8, <1>9, <1>10, <1>11, <1>12, <1>13
       DEF SetupStep

LEMMA HostInductive == SdkSpec => [](TypeInv /\ HostInv)
<1>1. SdkInit => TypeInv /\ HostInv
    <2>1. SdkInit => HostInv
        BY DEF SdkInit, HostInv, NothingUnpinnedUnpacked
    <2> QED
        BY <2>1, InitTypes
<1>2. TypeInv /\ HostInv /\ [SdkNext]_sdkVars => (TypeInv /\ HostInv)'
    <2> SUFFICES ASSUME TypeInv, HostInv, [SdkNext]_sdkVars PROVE HostInv'
        BY NextTypes
    <2>1. ASSUME NEW p \in Publishers, Publish(p) PROVE HostInv'
        BY <2>1, PublishOnly DEF HostInv, NothingUnpinnedUnpacked, setupVars
    <2>2. CASE UNCHANGED sdkVars
        BY <2>2 DEF HostInv, NothingUnpinnedUnpacked, sdkVars, setupVars
    <2> QED
        BY <2>1, <2>2, SetupKeepsHost DEF SdkNext
<1> QED
    BY <1>1, <1>2, PTL DEF SdkSpec

(* Whatever is cut short, published or downloaded, nothing on a host comes  *)
(* from a bundle that does not have the pinned sum.                         *)
THEOREM NothingUnpinnedUnpackedHolds == SdkSpec => []NothingUnpinnedUnpacked
<1>1. TypeInv /\ HostInv => NothingUnpinnedUnpacked
    BY DEF HostInv
<1> QED
    BY <1>1, HostInductive, PTL

-----------------------------------------------------------------------------

(* Only archives of the bundle are ever there.                              *)
FromBundle(files) == \A a \in Wanted : files[a] # "none" => a \in InBundle

(* The first archive that the run misses is not there at all.               *)
FirstGapMissing ==
    \E i \in Gaps : before[request[i]] = "none" /\ \A j \in Gaps : i <= j

InstalledSoFar ==
    \A j \in 1 .. next - 1 : request[j] \in installed /\ request[j] \in InBundle

AsBefore == file = before /\ \A j \in 1 .. next - 1 : before[request[j]] = "whole"

AllWhole == \A a \in InBundle : file[a] = "whole"

Replaced(k) == file[Archives[k]] = "whole"

RunInv ==
    /\ FromBundle(file) /\ FromBundle(before)
    /\ ~ disturbed =>
        /\ at \notin {"idle", "exited"} => InstalledSoFar
        /\ at \in {"fetch", "download", "curl", "check"} =>
                AsBefore \/ (FirstGapMissing /\ bundle = PinnedBundle /\ AllWhole)
        /\ at \in {"download", "curl", "check"} => file[Wants] = "none"
        /\ at \in {"tar", "untar", "provided"} => FirstGapMissing
        /\ at = "tar" => \A k \in 1 .. unpacked : Replaced(k)
        /\ at = "untar" =>
                \A k \in 1 .. unpacked : Replaced(k) \/ Archives[k] = Archives[unpacked + 1]
        /\ at = "provided" => AllWhole
        /\ at = "exited" => SetupOutcome

(* While no file has changed, the archive the run is at is its first gap if *)
(* it is not whole.                                                         *)
LEMMA FirstGap ==
    ASSUME SetupTypes, AsBefore, next <= Len(request), file[Wants] # "whole"
    PROVE  /\ next \in Gaps /\ \A j \in Gaps : next <= j
           /\ file[Wants] = "none" => FirstGapMissing
           /\ file[Wants] # "none" => ~ FirstGapMissing
<1>1. /\ DOMAIN request = 1 .. Len(request) /\ next \in 1 .. Len(request)
      /\ Len(request) \in Nat
    BY WantedTypes DEF SetupTypes
<1>2. next \in Gaps /\ before[request[next]] = file[Wants]
    BY <1>1 DEF Gaps, AsBefore, Wants
<1>3. ASSUME NEW j \in Gaps PROVE next <= j /\ j \in Int
    <2>1. j \in 1 .. Len(request) /\ before[request[j]] # "whole"
        BY <1>1 DEF Gaps
    <2>2. j \notin 1 .. next - 1
        BY <2>1 DEF AsBefore
    <2> QED
        BY <1>1, <2>1, <2>2
<1>4. ASSUME file[Wants] # "none", FirstGapMissing PROVE FALSE
    <2>1. PICK i \in Gaps : before[request[i]] = "none" /\ \A j \in Gaps : i <= j
        BY <1>4 DEF FirstGapMissing
    <2>2. i = next
        BY <1>1, <1>2, <1>3, <2>1
    <2> QED
        BY <1>2, <1>4, <2>1, <2>2
<1> QED
    BY <1>2, <1>3, <1>4 DEF FirstGapMissing

(* The run can only succeed.                                                *)
Success ==
    \/ Gaps = {}
    \/ /\ FirstGapMissing
       /\ bundle = PinnedBundle
       /\ \A i \in DOMAIN request : request[i] \in InBundle

LEMMA RightToFail ==
    ASSUME UNCHANGED <<before, request, bundle>>, exit' = 1, ~ Success
    PROVE  SetupOutcome'
    BY DEF SetupOutcome, Success, FirstGapMissing, Gaps

LEMMA RightToSucceed ==
    ASSUME UNCHANGED <<before, request, bundle, installed>>, Success,
           \A i \in DOMAIN request : request[i] \in installed
    PROVE  SetupOutcome' \/ exit' # 0
    BY DEF SetupOutcome, Success, FirstGapMissing, Gaps

(* What a step that leaves the archives and the request alone keeps.        *)
LEMMA RunStable ==
    ASSUME UNCHANGED <<request, next, file, installed, before>>
    PROVE  /\ FromBundle(file)' <=> FromBundle(file)
           /\ FromBundle(before)' <=> FromBundle(before)
           /\ InstalledSoFar' <=> InstalledSoFar
           /\ AsBefore' <=> AsBefore
           /\ AllWhole' <=> AllWhole
           /\ FirstGapMissing' <=> FirstGapMissing
           /\ Wants' = Wants
           /\ \A k : Replaced(k)' <=> Replaced(k)
    BY DEF FromBundle, InstalledSoFar, AsBefore, AllWhole, FirstGapMissing, Gaps, Wants, Replaced

LEMMA SetupKeepsRun ==
    ASSUME TypeInv, HostInv, RunInv, SetupStep
    PROVE  RunInv'
<1>0. /\ SetupTypes /\ FromBundle(file) /\ FromBundle(before)
      /\ Len(request) \in Nat /\ DOMAIN request = 1 .. Len(request)
      /\ next \in 1 .. Len(request) + 1
    BY TypeParts, WantedTypes DEF RunInv, SetupTypes
<1>1. CASE FetchMissing
    <2>1. UNCHANGED <<request, next, file, installed, before>>
        BY <1>1 DEF FetchMissing
    <2> QED
        BY <1>0, <1>1, <2>1, RunStable DEF FetchMissing, RunInv
<1>2. CASE Extract
    <2>1. /\ UNCHANGED <<request, file, before, bundle, disturbed>>
          /\ \/ at = "fetch" /\ next <= Len(request) /\ file[Wants] # "none"
             \/ at = "provided"
        BY <1>2 DEF Extract
    <2>2. next \in 1 .. Len(request) /\ Wants \in Wanted /\ Wants = request[next]
        BY <1>0, <2>1, WantedTypes DEF SetupTypes, Wants
    <2>3. FromBundle(file)' /\ FromBundle(before)'
        BY <1>0, <2>1 DEF FromBundle
    <2>4. CASE file[Wants] = "whole"
        <3>1. /\ at' = "fetch" /\ next' = next + 1 /\ installed' = installed \cup {Wants}
            BY <1>2, <2>4 DEF Extract
        <3>2. Wants \in InBundle
            BY <1>0, <2>2, <2>4 DEF FromBundle
        <3>3. \A j \in 1 .. next' - 1 : j \in 1 .. next - 1 \/ j = next
            BY <1>0, <3>1
        <3>4. ~ disturbed => InstalledSoFar'
            BY <2>1, <2>2, <3>1, <3>2, <3>3 DEF RunInv, InstalledSoFar
        <3>5. AsBefore => AsBefore'
            BY <2>1, <2>2, <2>4, <3>3 DEF AsBefore
        <3>6. FirstGapMissing' = FirstGapMissing /\ AllWhole' = AllWhole
            BY <2>1 DEF FirstGapMissing, Gaps, AllWhole
        <3> QED
            BY <2>1, <2>3, <3>1, <3>4, <3>5, <3>6 DEF RunInv, HostInv
    <2>5. CASE file[Wants] # "whole"
        <3>1. at' = "exited" /\ exit' = 1
            BY <1>2, <2>5 DEF Extract, SetupExits
        <3>2. ASSUME ~ disturbed PROVE ~ Success
            <4>1. CASE at = "fetch" /\ AsBefore
                BY <2>1, <2>2, <2>5, <1>0, <4>1, FirstGap DEF Success
            <4>2. CASE FirstGapMissing /\ AllWhole
                <5>1. Wants \notin InBundle /\ Gaps # {}
                    BY <2>5, <4>2 DEF AllWhole, FirstGapMissing
                <5> QED
                    BY <1>0, <2>2, <5>1 DEF Success
            <4> QED
                BY <2>1, <3>2, <4>1, <4>2 DEF RunInv
        <3>3. ~ disturbed => SetupOutcome'
            BY <2>1, <3>1, <3>2, RightToFail
        <3> QED
            BY <2>1, <2>3, <3>1, <3>3 DEF RunInv
    <2> QED
        BY <2>4, <2>5
<1>3. CASE CurlNotFound
    <2>1. /\ UNCHANGED <<request, next, file, installed, before, bundle, disturbed>>
          /\ at = "download" /\ bundle = Absent /\ at' = "exited" /\ exit' = 1
        BY <1>3 DEF CurlNotFound, SetupExits
    <2>2. bundle # PinnedBundle /\ next <= Len(request)
        BY <1>0, <2>1, PinnedIsBundle DEF SetupTypes
    <2>3. ~ disturbed => ~ Success
        BY <1>0, <2>1, <2>2, FirstGap DEF Success, RunInv
    <2> QED
        BY <1>0, <2>1, <2>3, RightToFail, RunStable DEF RunInv
<1>4. CASE CurlOpens
    <2>1. /\ UNCHANGED <<request, next, file, installed, before, disturbed>>
          /\ at = "download" /\ bundle = Absent /\ at' = "curl"
        BY <1>4 DEF CurlOpens
    <2>2. ~ disturbed => AsBefore
        BY <2>1, PinnedIsBundle DEF RunInv
    <2> QED
        BY <1>0, <2>1, <2>2, RunStable DEF RunInv
<1>5. CASE CurlCloses
    <2>1. UNCHANGED <<request, next, file, installed, before>> /\ at = "curl"
        BY <1>5 DEF CurlCloses
    <2>2. \/ at' = "check" /\ disturbed' = disturbed
          \/ at' = "exited" /\ disturbed'
        BY <1>5 DEF CurlCloses, SetupExits
    <2>3. ~ disturbed => AsBefore
        BY <2>1 DEF RunInv, HostInv
    <2> QED
        BY <1>0, <2>1, <2>2, <2>3, RunStable DEF RunInv
<1>6. CASE UseBundle
    <2>1. /\ UNCHANGED <<request, next, file, installed, before, bundle, disturbed>>
          /\ at = "download" /\ at' = "check"
        BY <1>6 DEF UseBundle
    <2> QED
        BY <1>0, <2>1, RunStable DEF RunInv
<1>7. CASE CheckBundle
    <2>1. /\ UNCHANGED <<request, next, file, installed, before, bundle, disturbed>>
          /\ at = "check" /\ next <= Len(request)
        BY <1>0, <1>7 DEF CheckBundle, SetupTypes
    <2>2. CASE bundle = PinnedBundle
        <3>1. at' = "tar" /\ unpacked' = 0
            BY <1>7, <2>2 DEF CheckBundle
        <3>2. ~ disturbed => FirstGapMissing
            BY <1>0, <2>1, FirstGap DEF RunInv
        <3> QED
            BY <1>0, <2>1, <3>1, <3>2, RunStable DEF RunInv
    <2>3. CASE bundle # PinnedBundle
        <3>1. at' = "exited" /\ exit' = 1
            BY <1>7, <2>3 DEF CheckBundle, SetupExits
        <3>2. ~ disturbed => ~ Success
            BY <1>0, <2>1, <2>3, FirstGap DEF Success, RunInv
        <3> QED
            BY <1>0, <2>1, <3>1, <3>2, RightToFail, RunStable DEF RunInv
    <2> QED
        BY <2>2, <2>3
<1>8. CASE UnpackOpens
    <2>1. /\ UNCHANGED <<request, next, installed, before, bundle, unpacked, disturbed>>
          /\ at = "tar" /\ at' = "untar" /\ unpacked + 1 \in 1 .. Len(Archives)
          /\ unpacked \in Nat
          /\ file' = [file EXCEPT ![Archives[unpacked + 1]] = "partial"]
        BY <1>0, <1>8, WantedTypes DEF UnpackOpens, SetupTypes
    <2>2. Archives[unpacked + 1] \in InBundle /\ Archives[unpacked + 1] \in Wanted
        BY <2>1, WantedTypes
    <2>3. \A a \in Wanted : a # Archives[unpacked + 1] => file'[a] = file[a]
        BY <1>0, <2>1 DEF SetupTypes
    <2>4. FromBundle(file)' /\ FromBundle(before)'
        BY <1>0, <2>1, <2>2, <2>3 DEF FromBundle
    <2>5. /\ InstalledSoFar' = InstalledSoFar /\ FirstGapMissing' = FirstGapMissing
        BY <2>1 DEF InstalledSoFar, FirstGapMissing, Gaps
    <2>6. ASSUME NEW k \in 1 .. unpacked, Replaced(k)
          PROVE  Replaced(k)' \/ Archives[k] = Archives[unpacked + 1]
        <3>1. Archives[k] \in Wanted
            BY <2>1, WantedTypes
        <3> QED
            BY <2>3, <2>6, <3>1 DEF Replaced
    <2> QED
        BY <2>1, <2>4, <2>5, <2>6 DEF RunInv
<1>9. CASE UnpackCloses
    <2>1. /\ UNCHANGED <<request, next, installed, before, bundle, disturbed>>
          /\ at = "untar" /\ at' = "tar" /\ unpacked' = unpacked + 1
          /\ unpacked + 1 \in 1 .. Len(Archives) /\ unpacked \in Nat
          /\ file' = [file EXCEPT ![Archives[unpacked + 1]] = "whole"]
        BY <1>0, <1>9, WantedTypes DEF UnpackCloses, SetupTypes
    <2>2. Archives[unpacked + 1] \in InBundle /\ Archives[unpacked + 1] \in Wanted
        BY <2>1, WantedTypes
    <2>3. /\ \A a \in Wanted : a # Archives[unpacked + 1] => file'[a] = file[a]
          /\ file'[Archives[unpacked + 1]] = "whole"
        BY <1>0, <2>1, <2>2 DEF SetupTypes
    <2>4. FromBundle(file)' /\ FromBundle(before)'
        BY <1>0, <2>1, <2>2, <2>3 DEF FromBundle
    <2>5. /\ InstalledSoFar' = InstalledSoFar /\ FirstGapMissing' = FirstGapMissing
        BY <2>1 DEF InstalledSoFar, FirstGapMissing, Gaps
    <2>6. ASSUME NEW k \in 1 .. unpacked + 1, ~ disturbed
          PROVE  Replaced(k)'
        <3>1. Archives[k] \in Wanted
            BY <2>1, WantedTypes
        <3>2. CASE Archives[k] = Archives[unpacked + 1]
            BY <2>3, <3>2 DEF Replaced
        <3>3. CASE Archives[k] # Archives[unpacked + 1]
            <4>1. k \in 1 .. unpacked
                BY <2>1, <3>3
            <4>2. Replaced(k)
                BY <2>1, <2>6, <3>3, <4>1 DEF RunInv
            <4> QED
                BY <2>3, <3>1, <3>3, <4>2 DEF Replaced
        <3> QED
            BY <3>2, <3>3
    <2> QED
        BY <2>1, <2>4, <2>5, <2>6 DEF RunInv
<1>10. CASE CheckArchives
    <2>1. /\ UNCHANGED <<request, next, file, installed, before, bundle, disturbed>>
          /\ at = "tar" /\ unpacked = Len(Archives)
        BY <1>10 DEF CheckArchives
    <2>2. ~ disturbed => AllWhole
        <3>1. \A a \in InBundle : \E k \in 1 .. Len(Archives) : a = Archives[k]
            BY WantedTypes DEF InBundle
        <3> QED
            BY <2>1, <3>1 DEF RunInv, Replaced, AllWhole
    <2>3. ~ disturbed => at' = "provided"
        BY <1>10, <2>2 DEF CheckArchives, AllWhole
    <2> QED
        BY <1>0, <1>10, <2>1, <2>2, <2>3, RunStable DEF RunInv
<1>11. CASE SetupDone
    <2>1. /\ UNCHANGED <<request, next, file, installed, before, bundle, disturbed>>
          /\ at = "fetch" /\ next = Len(request) + 1 /\ at' = "exited" /\ exit' = 0
        BY <1>0, <1>11 DEF SetupDone, SetupExits
    <2>2. next - 1 = Len(request)
        BY <1>0, <2>1
    <2>3. ASSUME ~ disturbed
          PROVE  Success /\ \A i \in DOMAIN request : request[i] \in installed
        <3>1. \A i \in DOMAIN request : request[i] \in installed /\ request[i] \in InBundle
            BY <1>0, <2>1, <2>2, <2>3 DEF RunInv, InstalledSoFar
        <3>2. AsBefore => Gaps = {}
            BY <1>0, <2>2 DEF AsBefore, Gaps
        <3> QED
            BY <2>1, <2>3, <3>1, <3>2 DEF RunInv, Success
    <2> QED
        BY <1>0, <2>1, <2>3, RightToSucceed, RunStable DEF RunInv
<1> QED
    BY <1>1, <1>2, <1>3, <1>4, <1>5, <1>6, <1>7, <1>8, <1>9, <1>10, <1>11 DEF SetupStep

LEMMA RunInductive == SdkSpec => []RunInv
<1>1. SdkInit => RunInv
    BY DEF SdkInit, RunInv, FromBundle
<1>2. TypeInv /\ HostInv /\ RunInv /\ [SdkNext]_sdkVars => RunInv'
    <2> SUFFICES ASSUME TypeInv, HostInv, RunInv, [SdkNext]_sdkVars PROVE RunInv'
        OBVIOUS
    <2>1. CASE UNCHANGED setupVars
        <3>1. UNCHANGED <<at, request, next, bundle, file, unpacked, installed, exit,
                          before, disturbed>>
            BY <2>1 DEF setupVars
        <3>2. SetupOutcome' = SetupOutcome
            BY <3>1 DEF SetupOutcome, Gaps
        <3> QED
            BY <3>1, <3>2, RunStable DEF RunInv
    <2>2. CASE StartSetup
        <3>1. /\ at' = "fetch" /\ file' = file /\ before' = file /\ next' = 1
            BY <2>2 DEF StartSetup
        <3>2. FromBundle(file)' /\ FromBundle(before)'
            BY <3>1 DEF RunInv, FromBundle
        <3>3. AsBefore' /\ InstalledSoFar'
            BY <3>1 DEF AsBefore, InstalledSoFar
        <3> QED
            BY <3>1, <3>2, <3>3 DEF RunInv
    <2>3. CASE SetupStep
        BY <2>3, SetupKeepsRun
    <2>4. CASE InterruptSetup
        BY <2>4 DEF InterruptSetup, RunInv, FromBundle
    <2> QED
        BY <2>1, <2>2, <2>3, <2>4, PublishOnly DEF SdkNext, sdkVars, setupVars
<1> QED
    BY <1>1, <1>2, HostInductive, PTL DEF SdkSpec

(* Which undisturbed runs of setup succeed, and that they then installed    *)
(* everything (fetch_extract(), download_sdk_bundle()).                     *)
THEOREM SetupOutcomeHolds == SdkSpec => []SetupOutcome
<1>1. RunInv => SetupOutcome
    BY DEF RunInv, SetupOutcome
<1> QED
    BY <1>1, RunInductive, PTL

=============================================================================
