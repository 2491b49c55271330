----------------------------- MODULE CallProofs -----------------------------
(* A call of any format, as Formats specifies it: the steps of XPC, ECM and  *)
(* DLDI, the types of all formats, and then the theorems.  What each format's *)
(* steps keep holds throughout, and IPS, IPS32, APS (N64) and XPC implement  *)
(* RecordPatch.                                                              *)
EXTENDS RecordProofs

(* A call works on the job it was started with.                              *)
LEMMA JobKept == [Next]_vars => job' = job
<1> SUFFICES ASSUME [Next]_vars PROVE job' = job
  OBVIOUS
<1>1. ASSUME IpsNext \/ XpcNext PROVE job' = job
  BY <1>1 DEF IpsNext, IPSOpen, IPSReadRecord, IPSProcessRecord, XpcNext, XpcCopy, readxpc, XpcPatch
<1>2. ASSUME PpfNext PROVE job' = job
  BY <1>2 DEF PpfNext, PPFVersion, ApplyPPF1Patch, ApplyPPF2Patch, Record12, ApplyPPF3Patch, Record3
<1>3. ASSUME DpsNext \/ N64Next PROVE job' = job
  BY <1>3 DEF DpsNext, dpspatch, DpsRecord, DpsFinish, N64Next, ReadHeaders, ReadSizeHeader, ReadPatch
<1>4. ASSUME ApsGbaNext PROVE job' = job
  BY <1>4 DEF ApsGbaNext, ApplyPatch, ApplyChunk, TruncateFile
<1>5. ASSUME BpsNext \/ BsNext PROVE job' = job
  BY <1>5 DEF BpsNext, Modify, Apply, Command, BpsByte, Checksum, BsNext, bspatch_header, Control, WriteNew
<1>6. ASSUME UpsNext PROVE job' = job
  BY <1>6 DEF UpsNext, OpenFails, BadPatch, Direction, Copy, Block, XorByte, BlockFull, Verify
<1>7. ASSUME EcmNext PROVE job' = job
  BY <1>7 DEF EcmNext, EcmOpen, EcmSegment, EcmLiteral, EcmSector, EcmVerify
<1>8. ASSUME DldiNext PROVE job' = job
  BY <1>8 DEF DldiNext, dldipatch, FixHeader, FixSection, WriteBack
<1>9. ASSUME Done \/ UNCHANGED vars PROVE job' = job
  BY <1>9 DEF Done, vars
<1> QED  BY <1>1, <1>2, <1>3, <1>4, <1>5, <1>6, <1>7, <1>8, <1>9 DEF Next, Step

(* A call starts as its own format's does.                                   *)
LEMMA Begins ==
    ASSUME Init
    PROVE  /\ job.fmt \in IpsFormats => IpsInit
           /\ job.fmt = "dps" => DpsInit
           /\ job.fmt = "apsgba" => ApsGbaInit
           /\ job.fmt = "apsn64" => N64Init
           /\ job.fmt = "xpc" => XpcInit
           /\ job.fmt = "ecm" => EcmInit
           /\ job.fmt = "ppf" => PpfInit
           /\ job.fmt = "bps" => BpsInit
           /\ job.fmt = "bsdiff" => BsInit
           /\ job.fmt = "ups" => UpsInit
           /\ job.fmt = "dldi" => DldiInit
<1>1. ASSUME NEW f \in AllFormats, job \in Jobs(f) PROVE job.fmt = f
  BY <1>1, JobFormat
<1>2. /\ IpsInit => job.fmt \in IpsFormats
      /\ PpfInit => job.fmt = "ppf"
      /\ DpsInit => job.fmt = "dps"
      /\ ApsGbaInit => job.fmt = "apsgba"
      /\ N64Init => job.fmt = "apsn64"
      /\ BpsInit => job.fmt = "bps"
      /\ BsInit => job.fmt = "bsdiff"
      /\ XpcInit => job.fmt = "xpc"
      /\ UpsInit => job.fmt = "ups"
      /\ EcmInit => job.fmt = "ecm"
      /\ DldiInit => job.fmt = "dldi"
  <2>1. IpsInit => job.fmt \in IpsFormats
    BY <1>1 DEF IpsInit, IpsFormats, AllFormats
  <2>2. (PpfInit => job.fmt = "ppf") /\ (DpsInit => job.fmt = "dps") /\ (ApsGbaInit => job.fmt = "apsgba")
    BY <1>1 DEF PpfInit, DpsInit, ApsGbaInit, AllFormats
  <2>3. (N64Init => job.fmt = "apsn64") /\ (BpsInit => job.fmt = "bps") /\ (BsInit => job.fmt = "bsdiff")
    BY <1>1 DEF N64Init, BpsInit, BsInit, AllFormats
  <2>4. (XpcInit => job.fmt = "xpc") /\ (UpsInit => job.fmt = "ups")
    BY <1>1 DEF XpcInit, UpsInit, AllFormats
  <2>5. (EcmInit => job.fmt = "ecm") /\ (DldiInit => job.fmt = "dldi")
    BY <1>1 DEF EcmInit, DldiInit, AllFormats
  <2> QED  BY <2>1, <2>2, <2>3, <2>4, <2>5
<1> QED  BY <1>2 DEF Init, IpsFormats

(* A step of a call is one of its own format.                                *)
LEMMA Moves ==
    ASSUME [Next]_vars
    PROVE  /\ job.fmt \in IpsFormats => [IpsNext \/ Done]_vars
           /\ job.fmt = "dps" => [DpsNext \/ Done]_vars
           /\ job.fmt = "apsgba" => [ApsGbaNext \/ Done]_vars
           /\ job.fmt = "apsn64" => [N64Next \/ Done]_vars
           /\ job.fmt = "xpc" => [XpcNext \/ Done]_vars
           /\ job.fmt = "ecm" => [EcmNext \/ Done]_vars
           /\ job.fmt = "ppf" => [PpfNext \/ Done]_vars
           /\ job.fmt = "bps" => [BpsNext \/ Done]_vars
           /\ job.fmt = "bsdiff" => [BsNext \/ Done]_vars
           /\ job.fmt = "ups" => [UpsNext \/ Done]_vars
           /\ job.fmt = "dldi" => [DldiNext \/ Done]_vars
  BY DEF Next, Step, IpsFormats

-----------------------------------------------------------------------------
(* XPC: the patches applied so far are counted twice, and the output is no   *)
(* shorter than the ROM it was copied from.                                  *)
XpcIInv == /\ job \in Jobs("xpc") /\ at \in 0 .. Len(job.recs)
           /\ pc = "copy" => out = <<>> /\ at = 0
           /\ pc # "done" => loc = [n |-> at]
           /\ pc \in {"readxpc", "patch"} => out \in File /\ Len(out) >= Len(job.rom)

(* A patch of an XPC block has its place in the file.                        *)
LEMMA XpcPlace == ASSUME job \in Jobs("xpc"), at \in 0 .. Len(job.recs), at < Len(job.recs), NEW r, r = job.recs[at + 1]
                  PROVE  r.data \in File /\ Len(r.data) \in Nat /\ Place(r) \in Nat
<1>1. job.recs \in Seq([page : Nat, address : Nat, data : File]) /\ PageLen \in Nat
  BY XpcAssumption
<1>2. at + 1 \in 1 .. Len(job.recs)
  BY <1>1
<1>3. r \in [page : Nat, address : Nat, data : File]
  BY <1>1, <1>2, ElementOfSeq, Zenon
<1>4. r.page \in Nat /\ r.address \in Nat /\ r.data \in File
  BY <1>3
<1>5. r.page * PageLen \in Nat
  <2>1. PICK a \in Nat : a = r.page
    BY <1>4
  <2>2. PICK b \in Nat : b = PageLen
    BY <1>1
  <2> QED  BY <2>1, <2>2
<1>6. PICK k \in Nat : k = r.page * PageLen
  BY <1>5
<1>7. Place(r) = k + r.address
  BY <1>6 DEF Place
<1> QED  BY <1>4, <1>6, <1>7, SMTT(30), ZenonT(30) DEF File

(* Each step of xpcapply.                                                    *)
LEMMA XpcStep == XpcIInv /\ [XpcNext \/ Done]_vars => XpcIInv'
<1> SUFFICES ASSUME XpcIInv, [XpcNext \/ Done]_vars PROVE XpcIInv'
  OBVIOUS
<1>0. /\ job' = job /\ job \in Jobs("xpc") /\ at \in 0 .. Len(job.recs)
      /\ job.rom \in File /\ Len(job.rom) \in Nat /\ Len(job.recs) \in Nat
  <2>1. job' = job /\ job \in Jobs("xpc") /\ at \in 0 .. Len(job.recs)
    BY DEF XpcIInv, XpcNext, XpcCopy, readxpc, XpcPatch, Done, vars
  <2>2. job.rom \in File /\ job.recs \in Seq([page : Nat, address : Nat, data : File])
    BY <2>1, JobFormat, XpcAssumption DEF AllFormats
  <2> QED  BY <2>1, <2>2 DEF File
<1>1. CASE XpcCopy
  <2>1. pc = "copy" /\ at' = at /\ loc' = loc /\ loc = [n |-> at]
    BY <1>1 DEF XpcCopy, XpcIInv
  <2>2. CASE out' = job.rom /\ pc' = "readxpc"
    BY <1>0, <2>1, <2>2 DEF XpcIInv
  <2>3. CASE pc' = "done"
    BY <1>0, <2>1, <2>3 DEF XpcIInv
  <2> QED  BY <1>1, <2>2, <2>3 DEF XpcCopy
<1>2. CASE readxpc
  BY <1>0, <1>2 DEF readxpc, Close, XpcIInv
<1>3. CASE XpcPatch
  <2>1. CASE at < Len(job.recs) /\ at' = at + 1 /\ loc' = [n |-> at + 1]
               /\ out' = Put(out, Place(job.recs[at + 1]), job.recs[at + 1].data) /\ pc' = pc
    <3>1. pc = "patch" /\ out \in File /\ Len(out) >= Len(job.rom)
      BY <1>3 DEF XpcPatch, XpcIInv
    <3>2. out' \in File /\ Len(out') >= Len(out) /\ Len(out) \in Nat
      BY <1>0, <2>1, <3>1, XpcPlace, PutGrows
    <3>3. Len(out') >= Len(job.rom)
      <4>1. PICK m \in Nat : m = Len(out')
        BY <3>2 DEF File
      <4> QED  BY <1>0, <3>1, <3>2, <4>1
    <3>4. at' \in 0 .. Len(job.recs)
      BY <1>0, <2>1
    <3> QED  BY <1>0, <2>1, <3>1, <3>2, <3>3, <3>4 DEF XpcIInv
  <2>2. CASE pc' = "done" /\ at' = at
    BY <1>0, <2>2 DEF XpcIInv
  <2> QED  BY <1>3, <2>1, <2>2 DEF XpcPatch, Close
<1>4. CASE Done \/ UNCHANGED vars
  BY <1>0, <1>4 DEF Done, vars, XpcIInv
<1> QED  BY <1>1, <1>2, <1>3, <1>4 DEF XpcNext

-----------------------------------------------------------------------------
(* ECM: d lies in the buffer s from place k on.                              *)
Holds(s, k, d) == k + Len(d) <= Len(s) /\ \A i \in 1 .. Len(d) : s[k + i] = d[i]

(* What is put within a buffer lies there, and the buffer keeps its length.  *)
LEMMA HoldsPut ==
    ASSUME NEW s \in File, NEW k \in Nat, NEW d \in File, k + Len(d) <= Len(s)
    PROVE  Put(s, k, d) \in File /\ Len(Put(s, k, d)) = Len(s) /\ Holds(Put(s, k, d), k, d)
<1>1. Len(s) \in Nat /\ Len(d) \in Nat
  BY DEF File
<1>2. CASE d = <<>>
  BY <1>1, <1>2 DEF Put, Holds
<1>3. CASE d # <<>>
  <2>1. PICK p : p = Put(s, k, d)
    OBVIOUS
  <2>2. p \in File /\ Len(p) = Len(s)
        /\ \A i \in 1 .. Len(p) : k < i /\ i <= k + Len(d) => p[i] = d[i - k]
    <3>1. p \in File /\ Len(p) = IF k + Len(d) < Len(s) THEN Len(s) ELSE k + Len(d)
      BY <1>3, <2>1, PutBytes
    <3>2. Len(p) = Len(s)
      BY <1>1, <3>1
    <3> QED  BY <1>3, <2>1, <3>1, <3>2, PutBytes
  <2>3. ASSUME NEW i \in 1 .. Len(d) PROVE p[k + i] = d[i]
    <3>1. k + i \in 1 .. Len(p) /\ k < k + i /\ k + i <= k + Len(d) /\ (k + i) - k = i
      BY <1>1, <2>2
    <3> QED  BY <2>2, <3>1
  <2> QED  BY <1>1, <2>1, <2>2, <2>3 DEF Holds
<1> QED  BY <1>2, <1>3

(* What lies beside it stays.                                                *)
LEMMA HoldsKept ==
    ASSUME NEW s \in File, NEW k \in Nat, NEW d \in File, k + Len(d) <= Len(s),
           NEW m \in Nat, NEW e \in File, Holds(s, m, e), m + Len(e) <= k \/ k + Len(d) <= m
    PROVE  Holds(Put(s, k, d), m, e)
<1>1. Len(s) \in Nat /\ Len(d) \in Nat /\ Len(e) \in Nat
  BY DEF File
<1>2. CASE d = <<>>
  BY <1>2 DEF Put
<1>3. CASE d # <<>>
  <2>1. PICK p : p = Put(s, k, d)
    OBVIOUS
  <2>2. p \in File /\ Len(p) = Len(s)
    BY <2>1, HoldsPut
  <2>3. \A i \in 1 .. Len(s) : (i <= k \/ k + Len(d) < i) => p[i] = s[i]
    <3> SUFFICES ASSUME NEW i \in 1 .. Len(s), i <= k \/ k + Len(d) < i PROVE p[i] = s[i]
      OBVIOUS
    <3>1. i \in 1 .. Len(p)
      BY <2>2
    <3>2. p[i] = IF k < i /\ i <= k + Len(d) THEN d[i - k] ELSE IF i <= Len(s) THEN s[i] ELSE 0
      BY <1>3, <2>1, <3>1, PutBytes
    <3> QED  BY <1>1, <3>2
  <2>4. ASSUME NEW i \in 1 .. Len(e) PROVE p[m + i] = e[i]
    <3>1. m + i \in 1 .. Len(s) /\ (m + i <= k \/ k + Len(d) < m + i)
      BY <1>1 DEF Holds
    <3>2. s[m + i] = e[i]
      BY DEF Holds
    <3> QED  BY <2>3, <3>1, <3>2
  <2> QED  BY <1>1, <2>1, <2>2, <2>4 DEF Holds
<1> QED  BY <1>2, <1>3

(* Reading it gives it.                                                      *)
LEMMA HoldsSlice ==
    ASSUME NEW s \in File, NEW k \in Nat, NEW d \in File, Holds(s, k, d)
    PROVE  Slice(s, k, Len(d)) = d
<1>1. Len(s) \in Nat /\ Len(d) \in Nat /\ k + Len(d) <= Len(s)
  BY DEF File, Holds
<1>2. PICK p : p = Slice(s, k, Len(d))
  OBVIOUS
<1>3. p \in File /\ Len(p) = Len(d)
  BY <1>1, <1>2, SliceFile
<1>4. ASSUME NEW i \in 1 .. Len(p) PROVE p[i] = d[i]
  <2>1. p[i] = s[k + i]
    <3>1. i \in 1 .. Len(d)
      BY <1>3
    <3> QED  BY <1>1, <1>2, <3>1, SliceBytes
  <2> QED  BY <1>3, <2>1 DEF Holds
<1> QED  BY <1>2, <1>3, <1>4, SameFile

(* And a buffer of which it is all, is it.                                   *)
LEMMA HoldsAll == ASSUME NEW s \in File, NEW d \in File, Len(d) = Len(s), Holds(s, 0, d) PROVE s = d
<1>1. ASSUME NEW i \in 1 .. Len(s) PROVE s[i] = d[i]
  <2>1. i \in 1 .. Len(d) /\ 0 + i = i
    BY DEF File
  <2>2. s[0 + i] = d[i]
    BY <2>1 DEF Holds
  <2> QED  BY <2>1, <2>2
<1> QED  BY <1>1, SameFile

(* Neighbours lie there as one.                                              *)
Follows(m, k, d) == m = k + Len(d)
LEMMA HoldsJoin ==
    ASSUME NEW s \in File, NEW k \in Nat, NEW d \in File, NEW e \in File, NEW m \in Nat,
           Holds(s, k, d), Holds(s, m, e), Follows(m, k, d)
    PROVE  d \o e \in File /\ Len(d \o e) = Len(d) + Len(e) /\ Holds(s, k, d \o e)
<1>1. Len(s) \in Nat /\ Len(d) \in Nat /\ Len(e) \in Nat
  BY DEF File
<1>2. PICK c : c = d \o e
  OBVIOUS
<1>3. c \in File /\ Len(c) = Len(d) + Len(e)
  BY <1>2, ConcatFile
<1>4. ASSUME NEW i \in 1 .. Len(c) PROVE s[k + i] = c[i]
  <2>1. c[i] = IF i <= Len(d) THEN d[i] ELSE e[i - Len(d)]
    BY <1>2, <1>3, ConcatBytes
  <2>2. CASE i <= Len(d)
    <3>1. i \in 1 .. Len(d)
      BY <1>1, <1>3, <2>2
    <3> QED  BY <2>1, <2>2, <3>1 DEF Holds
  <2>3. CASE ~(i <= Len(d))
    <3>1. i - Len(d) \in 1 .. Len(e) /\ m + (i - Len(d)) = k + i
      BY <1>1, <1>3, <2>3 DEF Follows
    <3>2. s[m + (i - Len(d))] = e[i - Len(d)]
      BY <3>1 DEF Holds
    <3> QED  BY <2>1, <2>3, <3>1, <3>2
  <2> QED  BY <2>2, <2>3
<1>5. k + Len(c) <= Len(s)
  BY <1>1, <1>3 DEF Holds, Follows
<1> QED  BY <1>2, <1>3, <1>4, <1>5 DEF Holds

(* The sizes of the parts of a sector, and where they lie.                   *)
LEMMA EcmSizes ==
    /\ Sync \in File /\ Len(Sync) \in Nat /\ AddrLen \in Nat /\ DataLen \in Nat /\ EcmFlagLen \in Nat
    /\ EdcLen \in Nat /\ EccLen \in Nat
    /\ AddrAt = Len(Sync) /\ ModeAt = Len(Sync) + AddrLen /\ BodyAt = Len(Sync) + AddrLen + 1
    /\ EccAt = Len(Sync) + AddrLen + 1 + EcmFlagLen + EcmFlagLen + DataLen + EdcLen
    /\ SectorLen = EccAt + EccLen
    /\ AddrAt \in Nat /\ ModeAt \in Nat /\ BodyAt \in Nat /\ EccAt \in Nat /\ SectorLen \in Nat
    /\ 2 * EcmFlagLen = EcmFlagLen + EcmFlagLen
<1>1. /\ Sync \in File /\ Len(Sync) \in Nat /\ AddrLen \in Nat /\ DataLen \in Nat /\ EcmFlagLen \in Nat
      /\ EdcLen \in Nat /\ EccLen \in Nat
  BY EcmAssumption DEF File
<1> QED  BY <1>1 DEF AddrAt, ModeAt, BodyAt, EccAt, SectorLen

(* The sums fill their fields.                                               *)
LEMMA EdcFits ==
    ASSUME NEW s \in File,
           Len(s) \in {BodyAt + DataLen, 2 * EcmFlagLen + DataLen, SectorLen - EdcLen - BodyAt}
    PROVE  Edc(s) \in File /\ Len(Edc(s)) = EdcLen
<1>1. s \in [1 .. Len(s) -> Byte]
  BY DEF File
<1>2. Edc(s) \in [1 .. EdcLen -> Byte]
  BY <1>1, EcmSums, Zenon
<1> QED  BY <1>2, EcmSizes DEF File

(* And so does the error correction.                                         *)
LEMMA EccFits ==
    ASSUME NEW a \in File, NEW s \in File, Len(a) = AddrLen + 1, Len(s) = EccAt - BodyAt
    PROVE  Ecc(a, s) \in File /\ Len(Ecc(a, s)) = EccLen
<1>1. a \in [1 .. (AddrLen + 1) -> Byte] /\ s \in [1 .. (EccAt - BodyAt) -> Byte]
  BY DEF File
<1>2. Ecc(a, s) \in [1 .. EccLen -> Byte]
  BY <1>1, EcmSums, Zenon
<1> QED  BY <1>2, EcmSizes DEF File

(* A mode 1 sector: whatever the buffer held, the sector is the one the      *)
(* stored address and data were taken from.                                  *)
LEMMA EcmMode1 ==
    ASSUME NEW s \in File, Len(s) = SectorLen, NEW d \in File, Len(d) = AddrLen + DataLen,
           NEW new \in reconstruct_sector(ReadSector(s, d, 1), 1)
    PROVE  new \in File /\ Len(new) = SectorLen /\ new = SectorOf(d, 1)
<1>0. Sync \in File /\ AddrAt \in Nat /\ ModeAt \in Nat /\ BodyAt \in Nat /\ EccAt \in Nat /\ AddrLen \in Nat /\ DataLen \in Nat
  BY EcmSizes
<1>1. PICK a : a = Slice(d, 0, AddrLen)
  OBVIOUS
<1>2. PICK b : b = Slice(d, AddrLen, DataLen)
  OBVIOUS
<1>3. a \in File /\ Len(a) = AddrLen /\ b \in File /\ Len(b) = DataLen
  <2>1. 0 \in Nat /\ 0 + AddrLen <= Len(d) /\ AddrLen + DataLen <= Len(d)
    BY EcmSizes
  <2> QED  BY <1>0, <1>1, <1>2, <2>1, SliceFile
<1>4. PICK o : o = <<1>>
  OBVIOUS
<1>5. o \in File /\ Len(o) = 1
  BY <1>4, EcmAssumption, BaseAssumption DEF File, Byte
<1>6. PICK z : z = Fill(2 * EcmFlagLen, 0)
  OBVIOUS
<1>7. z \in File /\ Len(z) = EcmFlagLen + EcmFlagLen
  BY <1>6, EcmSizes, FillFile
<1>parts. a \in File /\ b \in File /\ o \in File
  BY <1>3, <1>5
<1>8. PICK s1 : s1 = Put(s, AddrAt, a)
  OBVIOUS
<1>9. s1 \in File /\ Len(s1) = SectorLen /\ Holds(s1, AddrAt, a)
  <2>1. AddrAt + Len(a) <= Len(s)
    BY <1>3, EcmSizes
  <2> QED  BY <1>0, <1>3, <1>8, <2>1, HoldsPut
<1>10. PICK s2 : s2 = Put(s1, BodyAt, b)
  OBVIOUS
<1>11. s2 \in File /\ Len(s2) = SectorLen /\ Holds(s2, AddrAt, a) /\ Holds(s2, BodyAt, b)
  <2>1. BodyAt + Len(b) <= Len(s1) /\ AddrAt + Len(a) <= BodyAt
    BY <1>3, <1>9, EcmSizes
  <2> QED  BY <1>0, <1>3, <1>9, <1>10, <2>1, HoldsPut, HoldsKept, SMTT(30), ZenonT(30)
<1>12. PICK s3 : s3 = Put(s2, 0, Sync)
  OBVIOUS
<1>13. s3 \in File /\ Len(s3) = SectorLen /\ Holds(s3, AddrAt, a) /\ Holds(s3, BodyAt, b) /\ Holds(s3, 0, Sync)
  <2>1. 0 \in Nat /\ 0 + Len(Sync) <= Len(s2) /\ 0 + Len(Sync) <= AddrAt /\ 0 + Len(Sync) <= BodyAt
    BY <1>11, EcmSizes
  <2>2. s3 \in File /\ Len(s3) = SectorLen /\ Holds(s3, 0, Sync)
    BY <1>0, <1>11, <1>12, <2>1, HoldsPut
  <2> QED  BY <1>0, <1>3, <1>11, <1>12, <2>1, <2>2, HoldsKept
<1>14. PICK s4 : s4 = Put(s3, ModeAt, o)
  OBVIOUS
<1>15. /\ s4 \in File /\ Len(s4) = SectorLen
       /\ Holds(s4, AddrAt, a) /\ Holds(s4, BodyAt, b) /\ Holds(s4, 0, Sync) /\ Holds(s4, ModeAt, o)
  <2>1. /\ 0 \in Nat /\ ModeAt + Len(o) <= Len(s3) /\ ModeAt + Len(o) <= BodyAt
        /\ 0 + Len(Sync) <= ModeAt /\ AddrAt + Len(a) <= ModeAt
    BY <1>3, <1>5, <1>13, EcmSizes
  <2>2. s4 \in File /\ Len(s4) = SectorLen /\ Holds(s4, ModeAt, o)
    BY <1>0, <1>5, <1>13, <1>14, <2>1, HoldsPut
  <2> QED  BY <1>0, <1>3, <1>5, <1>13, <1>14, <2>1, <2>2, HoldsKept
<1>16. PICK k \in Nat : k = BodyAt + DataLen
  BY <1>0
<1>17. PICK s5 : s5 = Put(s4, k + EdcLen, z)
  OBVIOUS
<1>18. /\ s5 \in File /\ Len(s5) = SectorLen
       /\ Holds(s5, AddrAt, a) /\ Holds(s5, BodyAt, b) /\ Holds(s5, 0, Sync) /\ Holds(s5, ModeAt, o) /\ Holds(s5, k + EdcLen, z)
  <2>1. /\ 0 \in Nat /\ k + EdcLen \in Nat /\ k + EdcLen + Len(z) <= Len(s4)
        /\ 0 + Len(Sync) <= k + EdcLen /\ AddrAt + Len(a) <= k + EdcLen
        /\ ModeAt + Len(o) <= k + EdcLen /\ BodyAt + Len(b) <= k + EdcLen
    BY <1>3, <1>5, <1>7, <1>15, <1>16, EcmSizes, SMTT(30), ZenonT(30)
  <2>2. s5 \in File /\ Len(s5) = SectorLen /\ Holds(s5, k + EdcLen, z)
    BY <1>7, <1>15, <1>17, <2>1, HoldsPut
  <2>3. Holds(s5, AddrAt, a) /\ Holds(s5, BodyAt, b)
    BY <1>0, <1>3, <1>7, <1>15, <1>17, <2>1, HoldsKept
  <2>4. Holds(s5, 0, Sync) /\ Holds(s5, ModeAt, o)
    BY <1>0, <1>5, <1>7, <1>15, <1>17, <2>1, HoldsKept
  <2> QED  BY <2>2, <2>3, <2>4
<1>19. PICK ao, g, f, h : ao = a \o o /\ g = Sync \o a /\ f = g \o o /\ h = f \o b
  OBVIOUS
<1>20. ASSUME NEW t \in File, Holds(t, AddrAt, a), Holds(t, BodyAt, b), Holds(t, 0, Sync), Holds(t, ModeAt, o)
       PROVE  /\ ao \in File /\ Len(ao) = AddrLen + 1 /\ Holds(t, AddrAt, ao)
              /\ f \in File /\ Len(f) = BodyAt /\ Holds(t, 0, f)
              /\ h \in File /\ Len(h) = k /\ Holds(t, 0, h)
  <2>1. 0 \in Nat /\ Follows(ModeAt, AddrAt, a) /\ Follows(AddrAt, 0, Sync)
    BY <1>3, EcmSizes DEF Follows
  <2>2. ao \in File /\ Len(ao) = Len(a) + Len(o) /\ Holds(t, AddrAt, ao)
    BY <1>0, <1>19, <1>20, <1>parts, <2>1, HoldsJoin
  <2>3. g \in File /\ Len(g) = Len(Sync) + Len(a) /\ Holds(t, 0, g)
    BY <1>0, <1>19, <1>20, <1>parts, <2>1, HoldsJoin
  <2>4. Follows(ModeAt, 0, g) /\ Len(g) = ModeAt
    BY <1>3, <2>3, EcmSizes DEF Follows
  <2>5. f \in File /\ Len(f) = Len(g) + Len(o) /\ Holds(t, 0, f)
    BY <1>0, <1>19, <1>20, <1>parts, <2>1, <2>3, <2>4, HoldsJoin
  <2>6. Follows(BodyAt, 0, f) /\ Len(f) = BodyAt
    BY <1>5, <2>4, <2>5, EcmSizes DEF Follows
  <2>7. h \in File /\ Len(h) = Len(f) + Len(b) /\ Holds(t, 0, h)
    BY <1>0, <1>19, <1>20, <1>parts, <2>1, <2>5, <2>6, HoldsJoin
  <2>8. Len(h) = k /\ Len(ao) = AddrLen + 1
    BY <1>3, <1>5, <1>16, <2>2, <2>6, <2>7
  <2> QED  BY <2>2, <2>5, <2>6, <2>7, <2>8
<1>21. PICK e : e = Edc(h)
  OBVIOUS
<1>22. Slice(s5, 0, k) = h /\ e \in File /\ Len(e) = EdcLen
  <2>1. h \in File /\ Len(h) = k /\ Holds(s5, 0, h)
    BY <1>18, <1>20
  <2>2. Slice(s5, 0, Len(h)) = h
    BY <1>18, <2>1, HoldsSlice
  <2>3. Len(h) = BodyAt + DataLen
    BY <1>16, <2>1
  <2>4. e \in File /\ Len(e) = EdcLen
    BY <1>21, <2>1, <2>3, EdcFits
  <2> QED  BY <2>1, <2>2, <2>4
<1>23. PICK s6 : s6 = Put(s5, k, e)
  OBVIOUS
<1>24. /\ s6 \in File /\ Len(s6) = SectorLen /\ Holds(s6, k, e)
       /\ Holds(s6, AddrAt, a) /\ Holds(s6, BodyAt, b) /\ Holds(s6, 0, Sync) /\ Holds(s6, ModeAt, o) /\ Holds(s6, k + EdcLen, z)
  <2>1. /\ 0 \in Nat /\ k + EdcLen \in Nat /\ k + Len(e) <= Len(s5) /\ k + Len(e) <= k + EdcLen
        /\ 0 + Len(Sync) <= k /\ AddrAt + Len(a) <= k /\ ModeAt + Len(o) <= k /\ BodyAt + Len(b) <= k
    BY <1>3, <1>5, <1>7, <1>18, <1>16, <1>22, EcmSizes, SMTT(30), ZenonT(30)
  <2>2. s6 \in File /\ Len(s6) = SectorLen /\ Holds(s6, k, e)
    BY <1>18, <1>22, <1>23, <2>1, HoldsPut
  <2>3. Holds(s6, AddrAt, a) /\ Holds(s6, BodyAt, b)
    BY <1>0, <1>3, <1>16, <1>18, <1>22, <1>23, <2>1, HoldsKept
  <2>4. Holds(s6, 0, Sync) /\ Holds(s6, ModeAt, o)
    BY <1>0, <1>5, <1>16, <1>18, <1>22, <1>23, <2>1, HoldsKept
  <2>5. Holds(s6, k + EdcLen, z)
    BY <1>7, <1>18, <1>22, <1>23, <2>1, HoldsKept
  <2> QED  BY <2>2, <2>3, <2>4, <2>5
<1>25. PICK be, m : be = b \o e /\ m = be \o z
  OBVIOUS
<1>26. m \in File /\ Len(m) = EccAt - BodyAt /\ Holds(s6, BodyAt, m)
  <2>1. Follows(k, BodyAt, b) /\ k + EdcLen \in Nat
    BY <1>3, <1>16, EcmSizes DEF Follows
  <2>2. be \in File /\ Len(be) = Len(b) + Len(e) /\ Holds(s6, BodyAt, be)
    BY <1>0, <1>16, <1>22, <1>24, <1>25, <1>parts, <2>1, HoldsJoin
  <2>3. Follows(k + EdcLen, BodyAt, be)
    BY <1>3, <1>16, <1>22, <2>2, EcmSizes DEF Follows
  <2>4. m \in File /\ Len(m) = Len(be) + Len(z) /\ Holds(s6, BodyAt, m)
    BY <1>0, <1>7, <1>24, <1>25, <2>1, <2>2, <2>3, HoldsJoin
  <2>5. Len(m) = EccAt - BodyAt
    BY <1>3, <1>7, <1>22, <2>2, <2>4, EcmSizes
  <2> QED  BY <2>4, <2>5
<1>27. PICK c : c = Ecc(ao, m)
  OBVIOUS
<1>28. /\ Slice(s6, AddrAt, AddrLen + 1) = ao /\ Slice(s6, BodyAt, EccAt - BodyAt) = m
       /\ c \in File /\ Len(c) = EccLen
  <2>1. ao \in File /\ Len(ao) = AddrLen + 1 /\ Holds(s6, AddrAt, ao)
    BY <1>20, <1>24
  <2>2. Slice(s6, AddrAt, Len(ao)) = ao /\ Slice(s6, BodyAt, Len(m)) = m
    BY <1>0, <1>24, <1>26, <2>1, HoldsSlice
  <2>3. c \in File /\ Len(c) = EccLen
    BY <1>26, <1>27, <2>1, EccFits
  <2> QED  BY <1>26, <2>1, <2>2, <2>3
<1>29. PICK s7 : s7 = Put(s6, EccAt, c)
  OBVIOUS
<1>30. PICK fm, all : fm = f \o m /\ all = fm \o c
  OBVIOUS
<1>31. s7 \in File /\ Len(s7) = SectorLen /\ s7 = all
  <2>1. f \in File /\ Len(f) = BodyAt /\ Holds(s6, 0, f)
    BY <1>20, <1>24
  <2>2. /\ 0 \in Nat /\ EccAt + Len(c) <= Len(s6) /\ 0 + Len(f) <= EccAt /\ BodyAt + Len(m) <= EccAt
        /\ Follows(BodyAt, 0, f)
    BY <1>24, <1>26, <1>28, <2>1, EcmSizes, SMTT(30), ZenonT(30) DEF Follows
  <2>3. s7 \in File /\ Len(s7) = SectorLen /\ Holds(s7, EccAt, c)
    BY <1>0, <1>24, <1>28, <1>29, <2>2, HoldsPut
  <2>4. Holds(s7, 0, f) /\ Holds(s7, BodyAt, m)
    BY <1>0, <1>24, <1>26, <1>28, <1>29, <2>1, <2>2, HoldsKept
  <2>5. fm \in File /\ Len(fm) = Len(f) + Len(m) /\ Holds(s7, 0, fm)
    BY <1>0, <1>26, <1>30, <2>1, <2>2, <2>3, <2>4, HoldsJoin
  <2>6. Follows(EccAt, 0, fm)
    BY <1>26, <2>1, <2>5, EcmSizes DEF Follows
  <2>7. all \in File /\ Len(all) = Len(fm) + Len(c) /\ Holds(s7, 0, all)
    BY <1>0, <1>28, <1>30, <2>2, <2>3, <2>5, <2>6, HoldsJoin, SMTT(30), ZenonT(30)
  <2>8. Len(all) = SectorLen
    <3>1. Len(fm) = EccAt
      BY <1>26, <2>1, <2>5, EcmSizes
    <3> QED  BY <1>28, <2>7, <3>1, EcmSizes
  <2>9. s7 = all
    BY <2>3, <2>7, <2>8, HoldsAll
  <2> QED  BY <2>3, <2>9
<1>32. new = s7
  <2>1. ReadSector(s, d, 1) = s2
    BY <1>1, <1>2, <1>8, <1>10 DEF ReadSector
  <2>2. WithFrame(s2, 1) = s4
    BY <1>4, <1>12, <1>14 DEF WithFrame
  <2>3. WithReserved(s4, 1) = s5
    BY <1>6, <1>16, <1>17 DEF WithReserved
  <2>4. WithEdc(s5, 1) = s6
    <3>1. WithEdc(s5, 1) = Put(s5, k, Edc(Slice(s5, 0, k)))
      BY <1>16 DEF WithEdc
    <3> QED  BY <1>21, <1>22, <1>23, <3>1
  <2>5. WithEcc(s6, 1) = s7
    <3>1. WithEcc(s6, 1) = Put(s6, EccAt, Ecc(Slice(s6, AddrAt, AddrLen + 1), Slice(s6, BodyAt, EccAt - BodyAt)))
      BY DEF WithEcc, Body
    <3> QED  BY <1>27, <1>28, <1>29, <3>1
  <2> QED  BY <2>1, <2>2, <2>3, <2>4, <2>5 DEF reconstruct_sector
<1>33. SectorOf(d, 1) = all
  <2>1. Framed(d) = h
    BY <1>1, <1>2, <1>4, <1>19 DEF Framed
  <2>2. Summed(d) = b \o Edc(Framed(d)) \o z
    BY <1>2, <1>6 DEF Summed
  <2>3. Summed(d) = m
    BY <1>21, <1>25, <2>1, <2>2
  <2>4. SectorOf(d, 1) = Sync \o a \o o \o Summed(d) \o Ecc(a \o o, Summed(d))
    BY <1>1, <1>4 DEF SectorOf
  <2> QED  BY <1>19, <1>27, <1>30, <2>3, <2>4
<1> QED  BY <1>31, <1>32, <1>33

(* A mode 2 sector up to its sums: the flags, twice, and the data.           *)
LEMMA EcmMode2 ==
    ASSUME NEW s \in File, Len(s) = SectorLen, NEW d \in File, EcmFlagLen <= Len(d),
           BodyAt + EcmFlagLen + Len(d) <= SectorLen, NEW type \in {2, 3}
    PROVE  /\ Flagged(d) \in File /\ Len(Flagged(d)) = EcmFlagLen + Len(d)
           /\ \E t \in File : /\ Len(t) = SectorLen /\ Holds(t, BodyAt, Flagged(d))
                              /\ t = WithReserved(WithFrame(ReadSector(s, d, type), type), type)
<1>1. PICK k \in Nat : k = BodyAt + EcmFlagLen
  BY EcmSizes
<1>2. Len(d) \in Nat /\ Len(s) \in Nat /\ EcmFlagLen \in Nat /\ BodyAt \in Nat /\ ModeAt \in Nat /\ Sync \in File /\ 0 \in Nat
  BY EcmSizes DEF File
<1>3. PICK f : f = Slice(d, 0, EcmFlagLen)
  OBVIOUS
<1>4. f \in File /\ Len(f) = EcmFlagLen /\ \A i \in 1 .. EcmFlagLen : f[i] = d[0 + i]
  <2>1. 0 + EcmFlagLen <= Len(d)
    BY <1>2
  <2> QED  BY <1>2, <1>3, <2>1, SliceFile, SliceBytes
<1>5. PICK o : o = <<2>>
  OBVIOUS
<1>6. o \in File /\ Len(o) = 1
  BY <1>5, EcmAssumption, BaseAssumption DEF File, Byte
<1>7. PICK s1 : s1 = Put(s, k, d)
  OBVIOUS
<1>8. s1 \in File /\ Len(s1) = SectorLen /\ Holds(s1, k, d)
  <2>1. k + Len(d) <= Len(s)
    BY <1>1, <1>2
  <2> QED  BY <1>7, <2>1, HoldsPut
<1>9. PICK s2 : s2 = Put(s1, 0, Sync)
  OBVIOUS
<1>10. s2 \in File /\ Len(s2) = SectorLen /\ Holds(s2, k, d)
  <2>1. 0 + Len(Sync) <= Len(s1) /\ 0 + Len(Sync) <= k
    BY <1>1, <1>8, EcmSizes
  <2> QED  BY <1>2, <1>8, <1>9, <2>1, HoldsPut, HoldsKept, SMTT(30), ZenonT(30)
<1>11. PICK s3 : s3 = Put(s2, ModeAt, o)
  OBVIOUS
<1>12. s3 \in File /\ Len(s3) = SectorLen /\ Holds(s3, k, d)
  <2>1. ModeAt + Len(o) <= Len(s2) /\ ModeAt + Len(o) <= k
    BY <1>1, <1>6, <1>10, EcmSizes
  <2>2. s3 \in File /\ Len(s3) = SectorLen
    <3>1. o \in File /\ ModeAt \in Nat
      BY <1>2, <1>6
    <3> QED  BY <1>10, <1>11, <2>1, <3>1, HoldsPut, SMTT(30), ZenonT(30)
  <2>3. Holds(s3, k, d)
    BY <1>2, <1>6, <1>10, <1>11, <2>1, HoldsKept
  <2> QED  BY <2>2, <2>3
<1>13. Holds(s3, k, f)
  <2>1. k + Len(d) <= Len(s3) /\ \A i \in 1 .. Len(d) : s3[k + i] = d[i]
    BY <1>12 DEF Holds
  <2>2. k + Len(f) <= Len(s3)
    <3>1. Len(s3) \in Nat
      BY <1>12, EcmSizes
    <3> QED  BY <1>2, <1>4, <2>1, <3>1
  <2>3. ASSUME NEW i \in 1 .. Len(f) PROVE s3[k + i] = f[i]
    <3>1. i \in 1 .. EcmFlagLen /\ i \in 1 .. Len(d) /\ 0 + i = i
      BY <1>2, <1>4
    <3>2. f[i] = d[0 + i] /\ s3[k + i] = d[i]
      BY <1>4, <2>1, <3>1
    <3> QED  BY <3>1, <3>2
  <2> QED  BY <2>2, <2>3 DEF Holds
<1>14. Slice(s3, k, EcmFlagLen) = f
  <2>1. Slice(s3, k, Len(f)) = f
    BY <1>4, <1>12, <1>13, HoldsSlice
  <2> QED  BY <1>4, <2>1
<1>15. PICK s4 : s4 = Put(s3, BodyAt, f)
  OBVIOUS
<1>16. s4 \in File /\ Len(s4) = SectorLen /\ Holds(s4, k, d) /\ Holds(s4, BodyAt, f)
  <2>1. BodyAt + Len(f) <= Len(s3) /\ BodyAt + Len(f) <= k
    BY <1>1, <1>4, <1>12, EcmSizes
  <2> QED  BY <1>2, <1>4, <1>12, <1>15, <2>1, HoldsPut, HoldsKept, SMTT(30), ZenonT(30)
<1>17. Flagged(d) = f \o d
  BY <1>3 DEF Flagged
<1>18. f \o d \in File /\ Len(f \o d) = EcmFlagLen + Len(d) /\ Holds(s4, BodyAt, f \o d)
  <2>1. Follows(k, BodyAt, f) /\ f \in File
    BY <1>1, <1>4 DEF Follows
  <2>2. f \o d \in File /\ Len(f \o d) = Len(f) + Len(d) /\ Holds(s4, BodyAt, f \o d)
    BY <1>2, <1>16, <2>1, HoldsJoin
  <2> QED  BY <1>4, <2>2
<1>19. WithReserved(WithFrame(ReadSector(s, d, type), type), type) = s4
  <2>1. type # 1
    OBVIOUS
  <2>2. ReadSector(s, d, type) = s1
    BY <1>1, <1>7, <2>1 DEF ReadSector
  <2>3. WithFrame(s1, type) = s3
    BY <1>5, <1>9, <1>11, <2>1 DEF WithFrame
  <2>4. WithReserved(s3, type) = s4
    BY <1>1, <1>14, <1>15, <2>1 DEF WithReserved
  <2> QED  BY <2>2, <2>3, <2>4
<1> QED  BY <1>16, <1>17, <1>18, <1>19

(* A mode 2 sector with error correction.                                    *)
LEMMA EcmForm1 ==
    ASSUME NEW s \in File, Len(s) = SectorLen, NEW d \in File, Len(d) = EcmFlagLen + DataLen,
           NEW new \in reconstruct_sector(ReadSector(s, d, 2), 2)
    PROVE  /\ new \in File /\ Len(new) = SectorLen /\ SectorOf(d, 2) \in File /\ Len(SectorOf(d, 2)) = SectorLen - BodyAt
           /\ Holds(new, BodyAt, SectorOf(d, 2))
<1>0. /\ BodyAt \in Nat /\ EccAt \in Nat /\ EccAt - EdcLen \in Nat /\ EcmFlagLen <= Len(d)
      /\ BodyAt + EcmFlagLen + Len(d) <= SectorLen
  BY EcmSizes
<1>1. PICK g : g = Flagged(d)
  OBVIOUS
<1>2. PICK t \in File : /\ Len(t) = SectorLen /\ Holds(t, BodyAt, g)
                        /\ t = WithReserved(WithFrame(ReadSector(s, d, 2), 2), 2)
  BY <1>0, <1>1, EcmMode2
<1>3. g \in File /\ Len(g) = 2 * EcmFlagLen + DataLen
  <2>1. g \in File /\ Len(g) = EcmFlagLen + Len(d)
    BY <1>0, <1>1, EcmMode2
  <2> QED  BY <2>1, EcmSizes
<1>4. Slice(t, BodyAt, 2 * EcmFlagLen + DataLen) = g
  <2>1. Slice(t, BodyAt, Len(g)) = g
    BY <1>0, <1>2, <1>3, HoldsSlice
  <2> QED  BY <1>3, <2>1
<1>5. PICK e : e = Edc(g)
  OBVIOUS
<1>6. e \in File /\ Len(e) = EdcLen
  BY <1>3, <1>5, EdcFits
<1>7. PICK k \in Nat : k = EccAt - EdcLen
  BY <1>0
<1>8. PICK u : u = Put(t, k, e)
  OBVIOUS
<1>9. u \in File /\ Len(u) = SectorLen /\ Holds(u, BodyAt, g) /\ Holds(u, k, e)
  <2>1. k + Len(e) <= Len(t) /\ BodyAt + Len(g) <= k
    BY <1>2, <1>3, <1>6, <1>7, EcmSizes, SMTT(30), ZenonT(30)
  <2> QED  BY <1>0, <1>2, <1>3, <1>6, <1>8, <2>1, HoldsPut, HoldsKept, SMTT(30), ZenonT(30)
<1>10. PICK m : m = g \o e
  OBVIOUS
<1>11. m \in File /\ Len(m) = EccAt - BodyAt /\ Holds(u, BodyAt, m)
  <2>1. Follows(k, BodyAt, g) /\ g \in File /\ e \in File
    BY <1>3, <1>6, <1>7, EcmSizes DEF Follows
  <2>2. m \in File /\ Len(m) = Len(g) + Len(e) /\ Holds(u, BodyAt, m)
    BY <1>0, <1>9, <1>10, <2>1, HoldsJoin
  <2> QED  BY <1>3, <1>6, <2>2, EcmSizes
<1>12. PICK z : z = Fill(AddrLen + 1, 0)
  OBVIOUS
<1>13. z \in File /\ Len(z) = AddrLen + 1
  <2>1. AddrLen + 1 \in Nat
    BY EcmSizes
  <2> QED  BY <1>12, <2>1, FillFile
<1>14. PICK c : c = Ecc(z, m)
  OBVIOUS
<1>15. c \in File /\ Len(c) = EccLen /\ Slice(u, BodyAt, EccAt - BodyAt) = m
  <2>1. Slice(u, BodyAt, Len(m)) = m
    BY <1>0, <1>9, <1>11, HoldsSlice
  <2> QED  BY <1>11, <1>13, <1>14, <2>1, EccFits
<1>16. PICK w : w = Put(u, EccAt, c)
  OBVIOUS
<1>17. w \in File /\ Len(w) = SectorLen /\ Holds(w, BodyAt, m) /\ Holds(w, EccAt, c)
  <2>1. EccAt + Len(c) <= Len(u) /\ BodyAt + Len(m) <= EccAt
    BY <1>9, <1>11, <1>15, EcmSizes
  <2> QED  BY <1>0, <1>9, <1>11, <1>15, <1>16, <2>1, HoldsPut, HoldsKept, SMTT(30), ZenonT(30)
<1>18. m \o c \in File /\ Len(m \o c) = SectorLen - BodyAt /\ Holds(w, BodyAt, m \o c)
  <2>1. Follows(EccAt, BodyAt, m) /\ m \in File /\ c \in File
    BY <1>11, <1>15, EcmSizes DEF Follows
  <2>2. m \o c \in File /\ Len(m \o c) = Len(m) + Len(c) /\ Holds(w, BodyAt, m \o c)
    BY <1>0, <1>17, <2>1, HoldsJoin
  <2> QED  BY <1>11, <1>15, <2>2, EcmSizes
<1>19. SectorOf(d, 2) = m \o c
  <2>1. SectorOf(d, 2) = Flagged(d) \o Edc(Flagged(d)) \o Ecc(z, Flagged(d) \o Edc(Flagged(d)))
    BY <1>12 DEF SectorOf
  <2> QED  BY <1>1, <1>5, <1>10, <1>14, <2>1
<1>20. new = w
  <2>1. WithEdc(t, 2) = u
    <3>1. WithEdc(t, 2) = Put(t, k, Edc(Slice(t, BodyAt, 2 * EcmFlagLen + DataLen)))
      BY <1>7 DEF WithEdc, Body
    <3> QED  BY <1>4, <1>5, <1>8, <3>1
  <2>2. WithEcc(u, 2) = w
    <3>1. WithEcc(u, 2) = Put(u, EccAt, Ecc(z, Slice(u, BodyAt, EccAt - BodyAt)))
      BY <1>12 DEF WithEcc, Body
    <3> QED  BY <1>14, <1>15, <1>16, <3>1
  <2> QED  BY <1>2, <2>1, <2>2 DEF reconstruct_sector
<1> QED  BY <1>17, <1>18, <1>19, <1>20

(* A mode 2 sector without it.                                               *)
LEMMA EcmForm2 ==
    ASSUME NEW s \in File, Len(s) = SectorLen, NEW d \in File, Len(d) = SectorLen - EdcLen - BodyAt - EcmFlagLen,
           NEW new \in reconstruct_sector(ReadSector(s, d, 3), 3)
    PROVE  /\ new \in File /\ Len(new) = SectorLen /\ SectorOf(d, 3) \in File /\ Len(SectorOf(d, 3)) = SectorLen - BodyAt
           /\ Holds(new, BodyAt, SectorOf(d, 3))
<1>0. /\ BodyAt \in Nat /\ SectorLen - EdcLen \in Nat /\ EcmFlagLen <= Len(d)
      /\ BodyAt + EcmFlagLen + Len(d) <= SectorLen
  BY EcmSizes
<1>1. PICK g : g = Flagged(d)
  OBVIOUS
<1>2. PICK t \in File : /\ Len(t) = SectorLen /\ Holds(t, BodyAt, g)
                        /\ t = WithReserved(WithFrame(ReadSector(s, d, 3), 3), 3)
  BY <1>0, <1>1, EcmMode2
<1>3. g \in File /\ Len(g) = SectorLen - EdcLen - BodyAt
  <2>1. g \in File /\ Len(g) = EcmFlagLen + Len(d)
    BY <1>0, <1>1, EcmMode2
  <2> QED  BY <2>1, EcmSizes
<1>4. Slice(t, BodyAt, SectorLen - EdcLen - BodyAt) = g
  <2>1. Slice(t, BodyAt, Len(g)) = g
    BY <1>0, <1>2, <1>3, HoldsSlice
  <2> QED  BY <1>3, <2>1
<1>5. PICK e : e = Edc(g)
  OBVIOUS
<1>6. e \in File /\ Len(e) = EdcLen
  BY <1>3, <1>5, EdcFits
<1>7. PICK k \in Nat : k = SectorLen - EdcLen
  BY <1>0
<1>8. PICK u : u = Put(t, k, e)
  OBVIOUS
<1>9. u \in File /\ Len(u) = SectorLen /\ Holds(u, BodyAt, g) /\ Holds(u, k, e)
  <2>1. k + Len(e) <= Len(t) /\ BodyAt + Len(g) <= k
    BY <1>2, <1>3, <1>6, <1>7, EcmSizes
  <2> QED  BY <1>0, <1>2, <1>3, <1>6, <1>8, <2>1, HoldsPut, HoldsKept, SMTT(30), ZenonT(30)
<1>10. g \o e \in File /\ Len(g \o e) = SectorLen - BodyAt /\ Holds(u, BodyAt, g \o e)
  <2>1. Follows(k, BodyAt, g) /\ g \in File /\ e \in File
    BY <1>3, <1>6, <1>7, EcmSizes DEF Follows
  <2>2. g \o e \in File /\ Len(g \o e) = Len(g) + Len(e) /\ Holds(u, BodyAt, g \o e)
    BY <1>0, <1>9, <2>1, HoldsJoin
  <2> QED  BY <1>3, <1>6, <2>2, EcmSizes
<1>11. SectorOf(d, 3) = g \o e
  BY <1>1, <1>5 DEF SectorOf
<1>12. new = u
  <2>1. WithEdc(t, 3) = u
    <3>1. WithEdc(t, 3) = Put(t, k, Edc(Slice(t, BodyAt, SectorLen - EdcLen - BodyAt)))
      BY <1>7 DEF WithEdc, Body
    <3> QED  BY <1>4, <1>5, <1>8, <3>1
  <2>2. WithEcc(u, 3) = u
    BY DEF WithEcc
  <2> QED  BY <1>2, <2>1, <2>2 DEF reconstruct_sector
<1> QED  BY <1>9, <1>10, <1>11, <1>12

(* Together: whatever the sector before left in the buffer, what is written  *)
(* of a sector is the part of the image it was stored for.                   *)
LEMMA EcmSectorIs ==
    ASSUME NEW s \in File, Len(s) = SectorLen, NEW type \in 1 .. 3, NEW d \in File, Len(d) = Stored(type),
           NEW new \in reconstruct_sector(ReadSector(s, d, type), type)
    PROVE  /\ new \in File /\ Len(new) = SectorLen
           /\ Written(new, type) = SectorOf(d, type) /\ Written(new, type) \in File
           /\ Len(Written(new, type)) = ImageLen(type)
<1>1. CASE type = 1
  <2>1. Len(d) = AddrLen + DataLen /\ new \in reconstruct_sector(ReadSector(s, d, 1), 1)
    BY <1>1 DEF Stored
  <2>2. new \in File /\ Len(new) = SectorLen /\ new = SectorOf(d, 1)
    BY <2>1, EcmMode1
  <2> QED  BY <1>1, <2>2 DEF Written, ImageLen
<1>2. CASE type # 1
  <2>1. PICK w : w = SectorOf(d, type)
    OBVIOUS
  <2>2. new \in File /\ Len(new) = SectorLen /\ w \in File /\ Len(w) = SectorLen - BodyAt /\ Holds(new, BodyAt, w)
    <3>1. CASE type = 2
      <4>1. Len(d) = EcmFlagLen + DataLen /\ new \in reconstruct_sector(ReadSector(s, d, 2), 2)
        BY <3>1 DEF Stored
      <4> QED  BY <2>1, <3>1, <4>1, EcmForm1
    <3>2. CASE type = 3
      <4>1. Len(d) = SectorLen - EdcLen - BodyAt - EcmFlagLen /\ new \in reconstruct_sector(ReadSector(s, d, 3), 3)
        BY <3>2 DEF Stored
      <4> QED  BY <2>1, <3>2, <4>1, EcmForm2
    <3> QED  BY <1>2, <3>1, <3>2
  <2>3. Slice(new, BodyAt, Len(w)) = w
    BY <2>2, EcmSizes, HoldsSlice
  <2>4. Written(new, type) = w
    BY <1>2, <2>2, <2>3 DEF Written
  <2> QED  BY <1>2, <2>1, <2>2, <2>4 DEF ImageLen
<1> QED  BY <1>1, <1>2

(* What is written so far of an intact file's image, at each place: so many  *)
(* segments, bytes of the literal or sectors of the segment.                 *)
EcmReady ==
    /\ loc \in [sector : File, num : Nat, pos : Nat, myError : {job.before}, io : {FALSE}]
    /\ Len(loc.sector) = SectorLen /\ out \in File /\ IsPrefixOf(out, job.want) /\ at \in Nat
    /\ pc = "unecmify" => at = 0 /\ out = <<>>
    /\ pc = "segment" => at + 1 \in 1 .. Len(job.segs) /\ Len(out) = job.marks[at + 1]
    /\ pc = "literal" => /\ at \in 1 .. (Len(job.segs) - 1) /\ job.segs[at].type = 0
                         /\ loc.pos + loc.num = EcmCount(job.segs[at].digits) + 1
                         /\ Len(out) = job.marks[at] + loc.pos
    /\ pc = "sector" => /\ at \in 1 .. (Len(job.segs) - 1) /\ job.segs[at].type # 0
                        /\ \E q \in Nat : /\ q + loc.num = EcmCount(job.segs[at].digits) + 1
                                          /\ loc.pos = q * Stored(job.segs[at].type)
                                          /\ Len(out) = job.marks[at] + q * ImageLen(job.segs[at].type)
    /\ pc = "verify" => out = job.want
EcmIInv == /\ job \in Jobs("ecm")
           /\ job.whole /\ pc # "done" => EcmReady
           /\ EcmExact

(* What the encoder made.                                                    *)
LEMMA EcmGiven ==
    ASSUME job \in Jobs("ecm"), job.whole
    PROVE  /\ Len(job.segs) \in Nat /\ Len(job.segs) - 1 \in Nat /\ job.segs \in Seq(EcmSegments)
           /\ job.magic = "ECM" /\ ~job.noEdc /\ job.want \in File
           /\ job.marks \in [1 .. Len(job.segs) -> Nat] /\ job.marks[1] = 0
           /\ job.marks[Len(job.segs)] = Len(job.want)
           /\ EcmFits(job.segs[Len(job.segs)].digits) /\ EcmCount(job.segs[Len(job.segs)].digits) = Counts - 1
<1>1. job.segs \in Seq(EcmSegments) /\ EcmMade(job)
  BY EcmAssumption
<1>2. Len(job.segs) \in Nat /\ (Len(job.segs) - 1) + 1 = Len(job.segs)
  BY <1>1
<1>3. job.want \in File
  BY JobFormat DEF AllFormats
<1> QED  BY <1>1, <1>2, <1>3 DEF EcmMade

(* And a segment of it.                                                      *)
LiteralOf(k, c, num) == /\ num <= Len(c.data) /\ job.marks[k + 1] = job.marks[k] + num
                        /\ \A i \in 1 .. num : job.want[job.marks[k] + i] = c.data[i]
SectorsOf(k, c, num, size, image) ==
    /\ num * size <= Len(c.data) /\ job.marks[k + 1] = job.marks[k] + num * image
    /\ \A q \in 0 .. (num - 1) :
         Slice(job.want, job.marks[k] + q * image, image) = SectorOf(Slice(c.data, q * size, size), c.type)
LEMMA EcmSegmentIs ==
    ASSUME job \in Jobs("ecm"), job.whole, NEW k \in 1 .. (Len(job.segs) - 1), NEW c, c = job.segs[k],
           NEW num, num = EcmCount(c.digits) + 1
    PROVE  /\ c \in EcmSegments /\ EcmFits(c.digits) /\ num \in Nat /\ EcmCount(c.digits) # Counts - 1
           /\ job.marks[k] \in Nat /\ job.marks[k + 1] \in Nat /\ job.marks[k + 1] <= Len(job.want)
           /\ c.type = 0 => LiteralOf(k, c, num)
           /\ c.type # 0 => SectorsOf(k, c, num, Stored(c.type), ImageLen(c.type))
<1>1. EcmMade(job)
  BY EcmAssumption
<1>2. k \in 1 .. Len(job.segs) /\ k + 1 \in 1 .. Len(job.segs)
  BY EcmGiven
<1>3. c \in EcmSegments /\ job.marks[k] \in Nat /\ job.marks[k + 1] \in Nat
  BY <1>2, EcmGiven, SMTT(30), ZenonT(30)
<1>4. EcmFits(c.digits) /\ num \in 1 .. (Counts - 1) /\ job.marks[k + 1] <= Len(job.want)
  BY <1>1 DEF EcmMade
<1>5. num \in Nat /\ EcmCount(c.digits) # Counts - 1
  <2>1. Counts \in Nat
    BY EcmAssumption
  <2>2. num # Counts
    BY <1>4, <2>1
  <2>3. EcmCount(c.digits) = Counts - 1 => num = Counts
    BY <2>1
  <2> QED  BY <1>4, <2>1, <2>2, <2>3
<1>6. c.type = 0 => LiteralOf(k, c, num)
  BY <1>1, Zenon DEF EcmMade, LiteralOf
<1>7. c.type # 0 => SectorsOf(k, c, num, Stored(c.type), ImageLen(c.type))
  BY <1>1, Zenon DEF EcmMade, SectorsOf
<1> QED  BY <1>3, <1>4, <1>5, <1>6, <1>7

(* A call that ends in an error says so, and if that is a read or write      *)
(* error it is marked as one.                                                *)
LEMMA EcmFailed ==
    ASSUME job' = job, job \in Jobs("ecm"), pc' = "done", ret' = 5, job.whole /\ ~job.exists => loc'.io = TRUE
    PROVE  EcmIInv'
<1>1. ret' # 0
  OBVIOUS
<1> QED  BY <1>1 DEF EcmIInv, EcmExact

(* What is stored and what is written of a sector has a length.              *)
LEMMA EcmLens == ASSUME NEW type \in 1 .. 3 PROVE Stored(type) \in Nat /\ ImageLen(type) \in Nat
<1>1. Stored(1) \in Nat /\ Stored(2) \in Nat /\ Stored(3) \in Nat
  <2>1. Stored(1) = AddrLen + DataLen /\ Stored(2) = EcmFlagLen + DataLen /\ Stored(3) = SectorLen - EdcLen - BodyAt - EcmFlagLen
    BY DEF Stored
  <2> QED  BY <2>1, EcmSizes
<1>2. SectorLen \in Nat /\ SectorLen - BodyAt \in Nat
  BY EcmSizes
<1>3. ImageLen(type) \in Nat
  BY <1>2 DEF ImageLen
<1>4. type = 1 \/ type = 2 \/ type = 3
  OBVIOUS
<1> QED  BY <1>1, <1>3, <1>4

(* The head of a segment of an intact file.                                  *)
LEMMA EcmBegins ==
    ASSUME job \in Jobs("ecm"), job.whole, EcmReady, EcmSegment, job' = job
    PROVE  pc' # "done" /\ EcmReady'
<1>1. PICK l : l = Len(job.segs)
  OBVIOUS
<1>2. /\ pc = "segment" /\ out' = out /\ at + 1 \in 1 .. l /\ Len(out) = job.marks[at + 1] /\ out \in File
      /\ IsPrefixOf(out, job.want) /\ Len(loc.sector) = SectorLen
      /\ loc \in [sector : File, num : Nat, pos : Nat, myError : {job.before}, io : {FALSE}]
  BY <1>1 DEF EcmReady, EcmSegment
<1>3. PICK c : c = job.segs[at + 1]
  OBVIOUS
<1>4. PICK num : num = EcmCount(c.digits) + 1
  OBVIOUS
<1>5. l \in Nat /\ at \in Nat /\ at < l /\ at # l
  <2>1. l \in Nat
    BY <1>1, EcmGiven
  <2>2. at \in Nat
    BY DEF EcmReady
  <2> QED  BY <1>2, <2>1, <2>2
<1>6. CASE at + 1 = l
  <2>1. EcmFits(c.digits) /\ EcmCount(c.digits) = Counts - 1 /\ job.marks[at + 1] = Len(job.want) /\ job.want \in File
    BY <1>1, <1>3, <1>6, EcmGiven
  <2>2. pc' = "verify" /\ loc' = loc
    BY <1>1, <1>3, <1>5, <2>1 DEF EcmSegment, EcmError, Close
  <2>3. out = job.want /\ at' \in Nat
    <3>1. at' = at + 1
      BY <1>1, <1>3, <1>5, <2>1 DEF EcmSegment
    <3> QED  BY <1>2, <1>5, <2>1, <3>1, SameFile DEF IsPrefixOf
  <2> QED  BY <1>2, <2>2, <2>3 DEF EcmReady
<1>7. CASE at + 1 # l
  <2>1. at + 1 \in 1 .. (l - 1)
    BY <1>2, <1>5, <1>7
  <2>2. /\ c \in EcmSegments /\ EcmFits(c.digits) /\ num \in Nat /\ EcmCount(c.digits) # Counts - 1
        /\ job.marks[at + 1] \in Nat
    BY <1>1, <1>3, <1>4, <2>1, EcmSegmentIs
  <2>3. /\ at' = at + 1 /\ pc' = IF c.type = 0 THEN "literal" ELSE "sector"
        /\ loc' = [loc EXCEPT !.num = num, !.pos = 0]
    BY <1>1, <1>3, <1>4, <1>5, <2>2 DEF EcmSegment
  <2>4. /\ loc' \in [sector : File, num : Nat, pos : Nat, myError : {job.before}, io : {FALSE}]
        /\ loc'.num = num /\ loc'.pos = 0 /\ loc'.sector = loc.sector
    BY <1>2, <2>2, <2>3
  <2>5. Len(out') = job.marks[at + 1] + 0
    BY <1>2, <2>2
  <2>6. CASE c.type = 0
    <3>1. pc' = "literal" /\ loc'.pos + loc'.num = num
      BY <2>2, <2>3, <2>4, <2>6
    <3>2. Len(out') = job.marks[at + 1] + loc'.pos /\ at' \in Nat
      BY <1>5, <2>3, <2>4, <2>5
    <3> QED  BY <1>1, <1>2, <1>3, <1>4, <2>1, <2>3, <2>4, <2>6, <3>1, <3>2 DEF EcmReady
  <2>7. CASE c.type # 0
    <3>1. Stored(c.type) \in Int /\ ImageLen(c.type) \in Int
      <4>1. c.type \in 1 .. 3
        BY <2>2, <2>7 DEF EcmSegments
      <4> QED  BY <4>1, EcmLens
    <3>2. 0 = 0 * Stored(c.type) /\ 0 = 0 * ImageLen(c.type)
      BY <3>1
    <3>3. \E q \in Nat : /\ q + loc'.num = num /\ loc'.pos = q * Stored(c.type)
                         /\ Len(out') = job.marks[at + 1] + q * ImageLen(c.type)
      <4> WITNESS 0 \in Nat
      <4> QED  BY <2>2, <2>4, <2>5, <3>2
    <3>4. pc' = "sector" /\ at' \in Nat
      BY <1>5, <2>3, <2>7
    <3>5. at' \in 1 .. (Len(job'.segs) - 1) /\ job'.segs[at'] = c /\ job'.segs[at'].type # 0
      BY <1>1, <1>3, <2>1, <2>3, <2>7
    <3>6. \E q \in Nat : /\ q + loc'.num = EcmCount(job'.segs[at'].digits) + 1
                         /\ loc'.pos = q * Stored(job'.segs[at'].type)
                         /\ Len(out') = job'.marks[at'] + q * ImageLen(job'.segs[at'].type)
      BY <1>3, <1>4, <2>3, <3>3, <3>5
    <3>7. /\ loc' \in [sector : File, num : Nat, pos : Nat, myError : {job'.before}, io : {FALSE}]
          /\ Len(loc'.sector) = SectorLen /\ out' \in File /\ IsPrefixOf(out', job'.want)
          /\ pc' # "unecmify" /\ pc' # "segment" /\ pc' # "literal" /\ pc' # "verify"
      BY <1>2, <2>4, <3>4
    <3> QED  BY <3>4, <3>5, <3>6, <3>7, ZenonT(40), SMTT(30) DEF EcmReady
  <2> QED  BY <2>3, <2>6, <2>7
<1> QED  BY <1>6, <1>7

(* The smaller of two numbers.                                               *)
LEMMA MinOf == ASSUME NEW a \in Nat, NEW b \in Nat
               PROVE  Min({a, b}) \in Nat /\ Min({a, b}) <= a /\ Min({a, b}) <= b
<1>1. \E x \in {a, b} : \A y \in {a, b} : x <= y
  OBVIOUS
<1>2. Min({a, b}) \in {a, b} /\ \A y \in {a, b} : Min({a, b}) <= y
  BY <1>1 DEF Min
<1> QED  BY <1>2

(* A write of an intact file's image that fails.                             *)
EcmLost == pc' = "done" /\ ret' = 5 /\ loc'.io = TRUE

(* Literal bytes of an intact file: the next ones of the image.              *)
LEMMA EcmCopies ==
    ASSUME job \in Jobs("ecm"), job.whole, EcmReady, EcmLiteral, job' = job
    PROVE  (pc' # "done" /\ EcmReady') \/ EcmLost
<1> DEFINE Loc == [sector : File, num : Nat, pos : Nat, myError : {job.before}, io : {FALSE}]
<1>1. /\ pc = "literal" /\ at' = at /\ at \in 1 .. (Len(job.segs) - 1) /\ at \in Nat /\ loc \in Loc /\ Len(loc.sector) = SectorLen
      /\ out \in File /\ IsPrefixOf(out, job.want)
  BY DEF EcmReady, EcmLiteral
<1>2. PICK c : c = job.segs[at]
  OBVIOUS
<1>3. PICK num : num = EcmCount(c.digits) + 1
  OBVIOUS
<1>4. PICK p \in Nat, r \in Nat : p = loc.pos /\ r = loc.num
  BY <1>1
<1>5. c.type = 0 /\ p + r = num /\ Len(out) = job.marks[at] + p
  BY <1>1, <1>2, <1>3, <1>4 DEF EcmReady
<1>6. /\ c \in EcmSegments /\ num \in Nat /\ job.marks[at] \in Nat /\ job.marks[at + 1] \in Nat
      /\ job.marks[at + 1] <= Len(job.want) /\ num <= Len(c.data) /\ job.marks[at + 1] = job.marks[at] + num
      /\ \A i \in 1 .. num : job.want[job.marks[at] + i] = c.data[i]
  <2>1. /\ c \in EcmSegments /\ num \in Nat /\ job.marks[at] \in Nat /\ job.marks[at + 1] \in Nat
        /\ job.marks[at + 1] <= Len(job.want)
    BY <1>1, <1>2, <1>3, EcmSegmentIs
  <2>2. LiteralOf(at, c, num)
    BY <1>1, <1>2, <1>3, <1>5, EcmSegmentIs
  <2> QED  BY <2>1, <2>2 DEF LiteralOf
<1>7. job.want \in File /\ Len(job.want) \in Nat /\ Len(job.segs) \in Nat /\ c.data \in File /\ Len(c.data) \in Nat
  <2>1. c.data \in File
    BY <1>6 DEF EcmSegments
  <2>2. job.want \in File /\ Len(job.segs) \in Nat
    BY EcmGiven
  <2> QED  BY <2>1, <2>2 DEF File
<1>8. CASE r = 0
  <2>1. pc' = "segment" /\ UNCHANGED <<out, loc>>
    <3>1. loc.num = 0 /\ ~(loc.num > 0)
      BY <1>4, <1>8
    <3> QED  BY <3>1 DEF EcmLiteral
  <2>2. at + 1 \in 1 .. Len(job.segs) /\ Len(out) = job.marks[at + 1]
    BY <1>1, <1>4, <1>5, <1>6, <1>7, <1>8
  <2> QED  BY <1>1, <2>1, <2>2 DEF EcmReady
<1>9. CASE r > 0
  <2>1. PICK b : b = Min({loc.num, SectorLen})
    OBVIOUS
  <2>2. b \in Nat /\ b <= r /\ b <= SectorLen
    BY <1>4, <2>1, MinOf, EcmSizes
  <2>3. PICK got : got = Slice(c.data, p, b)
    OBVIOUS
  <2>4. got \in File /\ Len(got) = b /\ \A i \in 1 .. b : got[i] = c.data[p + i]
    <3>1. p + b <= Len(c.data)
      BY <1>5, <1>6, <1>7, <2>2
    <3> QED  BY <1>7, <2>2, <2>3, <3>1, SliceFile, SliceBytes
  <2>5. PICK l : l = [loc EXCEPT !.num = @ - b, !.pos = @ + b, !.sector = Put(@, 0, got)]
    OBVIOUS
  <2>6. EcmWrite(got, l)
    <3>1. ~(loc.num = 0) /\ ~(Len(got) < b)
      BY <1>4, <1>9, <2>2, <2>4
    <3> QED  BY <1>2, <1>4, <2>1, <2>3, <2>5, <3>1 DEF EcmLiteral
  <2>7. l \in Loc /\ l.num = r - b /\ l.pos = p + b /\ Len(l.sector) = SectorLen
    <3>1. Put(loc.sector, 0, got) \in File /\ Len(Put(loc.sector, 0, got)) = SectorLen
      <4>1. 0 \in Nat /\ 0 + Len(got) <= Len(loc.sector) /\ loc.sector \in File
        BY <1>1, <2>2, <2>4, EcmSizes
      <4> QED  BY <1>1, <2>4, <4>1, HoldsPut
    <3>2. r - b \in Nat /\ p + b \in Nat
      BY <2>2
    <3> QED  BY <1>1, <1>4, <2>5, <3>1, <3>2
  <2>8. CASE out' = out \o got /\ loc' = l /\ pc' = pc
    <3>1. Len(out) + Len(got) <= Len(job.want)
      <4>1. PICK m \in Nat : m = job.marks[at]
        BY <1>6
      <4>2. m + num <= Len(job.want)
        BY <1>6, <4>1
      <4>3. Len(out) = m + p /\ Len(got) = b
        BY <1>5, <2>4, <4>1
      <4>4. p + b <= num
        BY <1>5, <2>2
      <4> QED  BY <1>6, <1>7, <2>2, <4>2, <4>3, <4>4, SMTT(30), ZenonT(30)
    <3>2. ASSUME NEW i \in 1 .. Len(got) PROVE got[i] = job.want[Len(out) + i]
      <4>1. i \in 1 .. b /\ p + i \in 1 .. num /\ job.marks[at] + (p + i) = Len(out) + i
        BY <1>5, <1>6, <2>2, <2>4, SMTT(30), ZenonT(30)
      <4> QED  BY <1>6, <2>4, <4>1
    <3>3. out' \in File /\ Len(out') = Len(out) + Len(got) /\ IsPrefixOf(out', job.want)
      BY <1>1, <1>7, <2>4, <2>8, <3>1, <3>2, PrefixGrows
    <3>4. Len(out') = job.marks[at] + loc'.pos /\ loc'.pos + loc'.num = num
      <4>1. PICK m \in Nat : m = job.marks[at]
        BY <1>6
      <4>2. Len(out) = m + p /\ loc'.pos = p + b /\ loc'.num = r - b
        BY <1>5, <2>7, <2>8, <4>1
      <4>3. Len(out') = (m + p) + b
        BY <2>4, <3>3, <4>2
      <4> QED  BY <1>5, <2>2, <4>1, <4>2, <4>3, SMTT(30), ZenonT(30)
    <3> QED  BY <1>1, <1>2, <1>3, <1>5, <2>7, <2>8, <3>3, <3>4 DEF EcmReady
  <2>9. CASE loc' = [l EXCEPT !.myError = 5, !.io = TRUE] /\ pc' = "done" /\ ret' = 5
    BY <2>7, <2>9 DEF EcmLost
  <2> QED  BY <2>6, <2>8, <2>9 DEF EcmWrite
<1> QED  BY <1>4, <1>8, <1>9

(* One more of a number of equal parts is still within all of them.          *)
LEMMA NextPart == ASSUME NEW q \in Nat, NEW n \in Nat, NEW z \in Nat, q < n
                  PROVE  q * z \in Nat /\ (q + 1) * z = q * z + z /\ n * z \in Nat /\ q * z + z <= n * z
<1>1. PICK m \in Nat : n = q + 1 + m
  <2>1. n - q - 1 \in Nat /\ n = q + 1 + (n - q - 1)
    OBVIOUS
  <2> QED  BY <2>1
<1>2. q * z \in Nat /\ m * z \in Nat
  OBVIOUS
<1>3. (q + 1 + m) * z = q * z + z + m * z
  OBVIOUS
<1> QED  BY <1>1, <1>2, <1>3

(* A sector of an intact file: the next part of the image.                   *)
LEMMA EcmRebuilds ==
    ASSUME job \in Jobs("ecm"), job.whole, EcmReady, EcmSector, job' = job
    PROVE  (pc' # "done" /\ EcmReady') \/ EcmLost
<1> DEFINE Loc == [sector : File, num : Nat, pos : Nat, myError : {job.before}, io : {FALSE}]
<1>1. /\ pc = "sector" /\ at' = at /\ at \in 1 .. (Len(job.segs) - 1) /\ at \in Nat /\ loc \in Loc /\ Len(loc.sector) = SectorLen
      /\ out \in File /\ IsPrefixOf(out, job.want)
  BY DEF EcmReady, EcmSector
<1>2. PICK c : c = job.segs[at]
  OBVIOUS
<1>3. PICK num : num = EcmCount(c.digits) + 1
  OBVIOUS
<1>4. PICK z, v : z = Stored(c.type) /\ v = ImageLen(c.type)
  OBVIOUS
<1>5. PICK q \in Nat, r \in Nat : r = loc.num /\ q + r = num /\ loc.pos = q * z /\ Len(out) = job.marks[at] + q * v
  BY <1>1, <1>2, <1>3, <1>4 DEF EcmReady
<1>6. c.type # 0
  BY <1>1, <1>2 DEF EcmReady
<1>7. /\ c \in EcmSegments /\ num \in Nat /\ job.marks[at] \in Nat /\ job.marks[at + 1] \in Nat
      /\ job.marks[at + 1] <= Len(job.want)
  BY <1>1, <1>2, <1>3, EcmSegmentIs
<1>8. /\ num * z <= Len(c.data) /\ job.marks[at + 1] = job.marks[at] + num * v
      /\ \A i \in 0 .. (num - 1) : Slice(job.want, job.marks[at] + i * v, v) = SectorOf(Slice(c.data, i * z, z), c.type)
  <2>1. SectorsOf(at, c, num, z, v)
    BY <1>1, <1>2, <1>3, <1>4, <1>6, EcmSegmentIs
  <2> QED  BY <2>1 DEF SectorsOf
<1>9. c.type \in 1 .. 3 /\ c.data \in File /\ Len(c.data) \in Nat /\ z \in Nat /\ v \in Nat
  <2>1. c.type \in 1 .. 3 /\ c.data \in File /\ Len(c.data) \in Nat
    BY <1>6, <1>7 DEF EcmSegments, File
  <2> QED  BY <1>4, <2>1, EcmLens
<1>10. job.want \in File /\ Len(job.want) \in Nat /\ Len(job.segs) \in Nat
  BY EcmGiven DEF File
<1>11. CASE r = 0
  <2>1. pc' = "segment" /\ UNCHANGED <<out, loc>>
    <3>1. loc.num = 0 /\ ~(loc.num > 0)
      BY <1>5, <1>11
    <3> QED  BY <3>1 DEF EcmSector
  <2>2. Len(out) = job.marks[at + 1]
    <3>1. q = num
      BY <1>5, <1>11
    <3> QED  BY <1>5, <1>8, <3>1
  <2>3. at + 1 \in 1 .. Len(job.segs)
    BY <1>1, <1>10
  <2> QED  BY <1>1, <2>1, <2>2, <2>3 DEF EcmReady
<1>12. CASE r > 0
  <2>1. q < num /\ q \in 0 .. (num - 1)
    BY <1>5, <1>7, <1>12
  <2>2. PICK qz \in Nat : qz = q * z /\ (q + 1) * z = qz + z /\ qz + z <= num * z /\ num * z \in Nat
    BY <1>7, <1>9, <2>1, NextPart
  <2>3. PICK qv \in Nat : qv = q * v /\ (q + 1) * v = qv + v /\ qv + v <= num * v /\ num * v \in Nat
    BY <1>7, <1>9, <2>1, NextPart
  <2>4. PICK got : got = Slice(c.data, qz, z)
    OBVIOUS
  <2>5. got \in File /\ Len(got) = z
    <3>1. qz + z <= Len(c.data)
      BY <1>8, <1>9, <2>2
    <3> QED  BY <1>9, <2>4, <3>1, SliceFile
  <2>6. PICK new \in reconstruct_sector(ReadSector(loc.sector, got, c.type), c.type) :
          EcmWrite(Written(new, c.type), [loc EXCEPT !.num = @ - 1, !.pos = @ + z, !.sector = new])
    <3>1. ~(loc.num = 0) /\ ~(Len(got) < Stored(c.type))
      BY <1>4, <1>5, <1>9, <1>12, <2>5
    <3> QED  BY <1>2, <1>4, <1>5, <2>2, <2>4, <3>1 DEF EcmSector
  <2>7. PICK w : w = Written(new, c.type)
    OBVIOUS
  <2>8. new \in File /\ Len(new) = SectorLen /\ w = SectorOf(got, c.type) /\ w \in File /\ Len(w) = v
    <3>1. loc.sector \in File /\ Len(got) = Stored(c.type)
      BY <1>1, <1>4, <2>5
    <3> QED  BY <1>1, <1>4, <1>9, <2>5, <2>7, <3>1, EcmSectorIs
  <2>9. PICK l : l = [loc EXCEPT !.num = @ - 1, !.pos = @ + z, !.sector = new]
    OBVIOUS
  <2>10. l \in Loc /\ l.num = r - 1 /\ l.pos = qz + z /\ Len(l.sector) = SectorLen
    <3>1. r - 1 \in Nat /\ qz + z \in Nat
      BY <1>9, <1>12
    <3> QED  BY <1>1, <1>5, <2>2, <2>8, <2>9, <3>1
  <2>11. PICK k \in Nat : k = job.marks[at] + qv
    BY <1>7
  <2>12. Len(out) = k /\ k + v <= Len(job.want) /\ Slice(job.want, k, v) = w
    <3>1. Len(out) = k
      BY <1>5, <2>3, <2>11
    <3>2. k + v <= Len(job.want)
      <4>1. PICK m \in Nat : m = job.marks[at]
        BY <1>7
      <4>2. PICK nv \in Nat : nv = num * v
        BY <2>3
      <4>3. m + nv <= Len(job.want) /\ qv + v <= nv /\ k = m + qv
        BY <1>7, <1>8, <2>3, <2>11, <4>1, <4>2
      <4> QED  BY <1>9, <1>10, <4>3
    <3>3. Slice(job.want, job.marks[at] + q * v, v) = SectorOf(Slice(c.data, q * z, z), c.type)
      BY <1>8, <2>1
    <3> QED  BY <2>2, <2>3, <2>4, <2>8, <2>11, <3>1, <3>2, <3>3
  <2>13. CASE out' = out \o w /\ loc' = l /\ pc' = pc
    <3>1. ASSUME NEW i \in 1 .. Len(w) PROVE w[i] = job.want[Len(out) + i]
      <4>1. i \in 1 .. v
        BY <2>8
      <4>2. Slice(job.want, k, v)[i] = job.want[k + i]
        BY <1>9, <1>10, <2>12, <4>1, SliceBytes
      <4> QED  BY <2>12, <4>2
    <3>2. out' \in File /\ Len(out') = Len(out) + Len(w) /\ IsPrefixOf(out', job.want)
      BY <1>1, <1>10, <2>8, <2>12, <2>13, <3>1, PrefixGrows
    <3>3. Len(out') = job.marks[at] + (q + 1) * v
      <4>1. PICK m \in Nat : m = job.marks[at]
        BY <1>7
      <4>2. Len(out') = (m + qv) + v
        BY <2>8, <2>11, <2>12, <3>2, <4>1
      <4>3. Len(out') = m + (qv + v)
        BY <1>9, <4>2
      <4> QED  BY <2>3, <4>1, <4>3
    <3>4. q + 1 \in Nat /\ (q + 1) + loc'.num = num /\ loc'.pos = (q + 1) * z
      <4>1. loc'.num = r - 1 /\ loc'.pos = qz + z
        BY <2>10, <2>13
      <4>2. q + 1 \in Nat /\ (q + 1) + (r - 1) = num
        BY <1>5
      <4> QED  BY <2>2, <4>1, <4>2
    <3>5. \E x \in Nat : /\ x + loc'.num = num /\ loc'.pos = x * Stored(c.type)
                         /\ Len(out') = job.marks[at] + x * ImageLen(c.type)
      BY <1>4, <3>3, <3>4
    <3> QED  BY <1>1, <1>2, <1>3, <1>6, <2>10, <2>13, <3>2, <3>5 DEF EcmReady
  <2>14. CASE loc' = [l EXCEPT !.myError = 5, !.io = TRUE] /\ pc' = "done" /\ ret' = 5
    BY <2>10, <2>14 DEF EcmLost
  <2> QED  BY <2>6, <2>7, <2>9, <2>13, <2>14 DEF EcmWrite
<1> QED  BY <1>5, <1>11, <1>12

(* Each step of unecmify.                                                    *)
LEMMA EcmStep == EcmIInv /\ [EcmNext \/ Done]_vars => EcmIInv'
<1> SUFFICES ASSUME EcmIInv, [EcmNext \/ Done]_vars PROVE EcmIInv'
  OBVIOUS
<1>0. job' = job /\ job \in Jobs("ecm") /\ (job.whole /\ pc # "done" => EcmReady)
  BY DEF EcmIInv, EcmNext, EcmOpen, EcmSegment, EcmLiteral, EcmSector, EcmVerify, Done, vars
<1>1. ASSUME job.whole, pc # "done" PROVE "io" \in DOMAIN loc /\ loc.myError = job.before
  BY <1>0, <1>1 DEF EcmReady
<1>2. ASSUME pc' # "done", job.whole => EcmReady' PROVE EcmIInv'
  BY <1>0, <1>2 DEF EcmIInv, EcmExact
<1>3. ASSUME EcmLost PROVE EcmIInv'
  BY <1>0, <1>3, EcmFailed DEF EcmLost
<1>4. ASSUME ~job.whole, pc' = "done", ret' = 5 PROVE EcmIInv'
  BY <1>0, <1>4, EcmFailed
<1>5. CASE EcmOpen
  <2>1. pc = "unecmify" /\ UNCHANGED <<job, out, at>>
    BY <1>5 DEF EcmOpen
  <2>2. CASE EcmError(TRUE)
    <3>1. pc' = "done" /\ ret' = 5 /\ (job.whole => loc'.io = TRUE)
      BY <1>1, <2>1, <2>2 DEF EcmError, Close
    <3> QED  BY <1>0, <3>1, EcmFailed
  <2>3. CASE (job.exists \/ job.magic # "ECM") /\ EcmError(FALSE)
    <3>1. pc' = "done" /\ ret' = 5 /\ (job.whole => job.exists)
      BY <1>0, <2>3, EcmGiven DEF EcmError, Close
    <3> QED  BY <1>0, <3>1, EcmFailed
  <2>4. CASE pc' = "segment" /\ loc' = loc
    <3>1. ASSUME job.whole PROVE EcmReady'
      <4>1. EcmReady /\ at = 0 /\ out = <<>>
        BY <1>0, <2>1, <3>1 DEF EcmReady
      <4>2. at + 1 \in 1 .. Len(job.segs) /\ Len(out) = job.marks[at + 1]
        BY <1>0, <3>1, <4>1, EcmGiven
      <4> QED  BY <1>0, <2>1, <2>4, <4>1, <4>2 DEF EcmReady
    <3> QED  BY <1>2, <2>4, <3>1
  <2> QED  BY <1>5, <2>2, <2>3, <2>4 DEF EcmOpen
<1>6. CASE EcmSegment
  <2>1. CASE job.whole
    <3>1. EcmReady
      BY <1>0, <1>6, <2>1 DEF EcmSegment
    <3> QED  BY <1>0, <1>2, <1>6, <2>1, <3>1, EcmBegins
  <2>2. CASE ~job.whole
    <3>1. (pc' = "done" /\ ret' = 5) \/ pc' # "done"
      BY <1>6 DEF EcmSegment, EcmError, Close
    <3> QED  BY <1>2, <1>4, <2>2, <3>1
  <2> QED  BY <2>1, <2>2
<1>7. CASE EcmLiteral
  <2>1. CASE job.whole
    <3>1. EcmReady
      BY <1>0, <1>7, <2>1 DEF EcmLiteral
    <3> QED  BY <1>0, <1>2, <1>3, <1>7, <2>1, <3>1, EcmCopies
  <2>2. CASE ~job.whole
    <3>1. (pc' = "done" /\ ret' = 5) \/ pc' # "done"
      BY <1>7 DEF EcmLiteral, EcmError, EcmWrite, Close
    <3> QED  BY <1>2, <1>4, <2>2, <3>1
  <2> QED  BY <2>1, <2>2
<1>8. CASE EcmSector
  <2>1. CASE job.whole
    <3>1. EcmReady
      BY <1>0, <1>8, <2>1 DEF EcmSector
    <3> QED  BY <1>0, <1>2, <1>3, <1>8, <2>1, <3>1, EcmRebuilds
  <2>2. CASE ~job.whole
    <3>1. (pc' = "done" /\ ret' = 5) \/ pc' # "done"
      BY <1>8 DEF EcmSector, EcmError, EcmWrite, Close
    <3> QED  BY <1>2, <1>4, <2>2, <3>1
  <2> QED  BY <2>1, <2>2
<1>9. CASE EcmVerify
  <2>1. pc = "verify" /\ job.whole => EcmReady /\ out = job.want /\ ~job.noEdc /\ loc.myError = job.before
    BY <1>0, <1>1, EcmGiven DEF EcmReady
  <2>2. CASE (job.noEdc \/ out # job.want) /\ EcmError(FALSE)
    <3>1. ~job.whole /\ pc' = "done" /\ ret' = 5
      BY <1>9, <2>1, <2>2 DEF EcmVerify, EcmError, Close
    <3> QED  BY <1>4, <3>1
  <2>3. CASE out = job.want /\ Close(loc.myError)
    <3>1. disk' = job.want /\ pc' = "done" /\ (job.whole => ret' = job.before)
      BY <1>9, <2>1, <2>3 DEF EcmVerify, Close
    <3> QED  BY <1>0, <3>1 DEF EcmIInv, EcmExact
  <2> QED  BY <1>9, <2>2, <2>3 DEF EcmVerify
<1>10. CASE Done \/ UNCHANGED vars
  BY <1>10 DEF Done, vars, EcmIInv, EcmExact, EcmReady
<1> QED  BY <1>5, <1>6, <1>7, <1>8, <1>9, <1>10 DEF EcmNext

(* A call starts with nothing written.                                       *)
LEMMA EcmStarts == EcmInit => EcmIInv
<1> SUFFICES ASSUME EcmInit PROVE EcmIInv
  OBVIOUS
<1>1. PICK b \in Byte : loc = [sector |-> Fill(SectorLen, b), num |-> 0, pos |-> 0, myError |-> job.before, io |-> FALSE]
  BY DEF EcmInit
<1>2. PICK f : f = Fill(SectorLen, b)
  OBVIOUS
<1>3. f \in File /\ Len(f) = SectorLen
  <2>1. SectorLen \in Nat
    BY EcmSizes
  <2>2. f \in [1 .. SectorLen -> Byte]
    BY <1>1, <1>2 DEF Fill
  <2> QED  BY <2>1, <2>2 DEF File
<1>4. job.want \in File
  BY JobFormat DEF EcmInit, AllFormats
<1>5. <<>> \in File /\ IsPrefixOf(<<>>, job.want)
  BY <1>4 DEF File, IsPrefixOf
<1>6. EcmReady
  BY <1>1, <1>2, <1>3, <1>5 DEF EcmInit, EcmReady
<1> QED  BY <1>6 DEF EcmInit, EcmIInv, EcmExact

-----------------------------------------------------------------------------
(* What every call keeps of the files, the position and the result.          *)
FileTypes == out \in File /\ disk \in File /\ at \in Nat /\ ret \in Int

(* Any number of copies of a byte.                                           *)
LEMMA FillBytes == ASSUME NEW n \in Nat, NEW b \in Byte PROVE Fill(n, b) \in File /\ Len(Fill(n, b)) = n
  BY DEF Fill, File

(* Closing a file leaves a result.                                           *)
LEMMA CloseTypes == ASSUME FileTypes, UNCHANGED <<out, at>>, NEW r \in Int, Close(r) \/ Abandon(r) PROVE FileTypes'
  BY DEF FileTypes, Close, Abandon

(* A digit of a number is a byte.                                            *)
LEMMA DigitByte == ASSUME NEW v \in Int, NEW w \in Nat, w > 0 PROVE (v \div w) % Base \in Byte
<1>1. PICK q \in Int : q = v \div w
  OBVIOUS
<1>2. q % Base \in 0 .. (Base - 1)
  BY BaseAssumption
<1> QED  BY <1>1, <1>2 DEF Byte

(* The weights of the digits of an address.                                  *)
LEMMA WeightIs == ASSUME NEW i \in 1 .. 5 PROVE Weight[i] \in Nat /\ Weight[i] > 0
<1>1. ASSUME NEW a \in Nat, a > 0 PROVE a * Base \in Nat /\ a * Base > 0
  BY <1>1, BaseAssumption
<1>2. PICK b \in Nat : b = Base * Base /\ b > 0
  BY <1>1, BaseAssumption
<1>3. PICK c \in Nat : c = b * Base /\ c > 0
  BY <1>1, <1>2
<1>4. PICK d \in Nat : d = c * Base /\ d > 0
  BY <1>1, <1>3
<1>5. /\ Weight[1] = 1 /\ Weight[2] = Base /\ Weight[3] = Base * Base /\ Weight[4] = Base * Base * Base
      /\ Weight[5] = Base * Base * Base * Base
  BY DEF Weight
<1> QED  BY <1>2, <1>3, <1>4, <1>5, BaseAssumption

(* An address is a number, of either sign.                                   *)
LEMMA SignedIs == ASSUME NEW v \in Int PROVE Signed(v) \in Int
<1>1. PtrLen + 1 \in 1 .. 5
  BY DldiAssumption
<1>2. PICK r \in Nat : r = Weight[PtrLen + 1] /\ r > 0
  BY <1>1, WeightIs
<1>3. PICK m \in Int : m = v % r
  BY <1>2
<1>4. Signed(v) \in {m - r, m}
  BY <1>2, <1>3 DEF Signed
<1> QED  BY <1>2, <1>3, <1>4

(* So is what is read anywhere in a file.                                    *)
LEMMA AddressIs == ASSUME NEW f \in File, NEW k \in Nat PROVE readAddr(f, k) \in Int
<1>1. PtrLen \in Nat
  BY DldiAssumption
<1>2. Slice(f, k, PtrLen) \in File
  BY <1>1, AnySlice
<1>3. LE(Slice(f, k, PtrLen)) \in Int
  BY <1>2, FieldIs
<1> QED  BY <1>3, SignedIs DEF readAddr

(* Writing an address puts PtrLen bytes.                                     *)
AddrBytes(v) == [i \in 1 .. PtrLen |-> (v \div Weight[i]) % Base]
LEMMA WriteAddrIs ==
    ASSUME NEW f \in File, NEW k \in Nat, NEW v \in Int
    PROVE  /\ writeAddr(f, k, v) = Put(f, k, AddrBytes(v)) /\ writeAddr(f, k, v) \in File
           /\ AddrBytes(v) \in File /\ Len(AddrBytes(v)) = PtrLen /\ AddrBytes(v) # <<>>
           /\ \A i \in 1 .. PtrLen : AddrBytes(v)[i] = (v \div Weight[i]) % Base
<1>1. PtrLen \in Nat /\ PtrLen > 0
  BY DldiAssumption
<1>2. ASSUME NEW i \in 1 .. PtrLen PROVE (v \div Weight[i]) % Base \in Byte
  <2>1. i \in 1 .. 5
    BY DldiAssumption
  <2> QED  BY <2>1, WeightIs, DigitByte
<1>3. AddrBytes(v) \in [1 .. PtrLen -> Byte]
  BY <1>2 DEF AddrBytes
<1>4. AddrBytes(v) \in File /\ Len(AddrBytes(v)) = PtrLen
  BY <1>1, <1>3 DEF File
<1>5. AddrBytes(v) # <<>>
  BY <1>1, <1>4
<1>6. writeAddr(f, k, v) = Put(f, k, AddrBytes(v))
  BY DEF writeAddr, AddrBytes
<1>7. Put(f, k, AddrBytes(v)) \in File
  BY <1>4, PutGrows
<1> QED  BY <1>4, <1>5, <1>6, <1>7 DEF AddrBytes

(* A driver's call: its driver, where it found the application's, and the    *)
(* copy it works on.                                                         *)
LEMMA DldiGiven ==
    ASSUME NEW j \in Jobs("dldi")
    PROVE  /\ j.rom \in File /\ j.patch \in File /\ j.want \in File /\ j.whole \in BOOLEAN /\ j.fmt = "dldi"
           /\ \A f \in DldiFields : DO[f] \in Nat /\ pDH(j, f) \in Byte
           /\ ddmemStart(j) \in Int /\ ddmemSize(j) \in Nat \ {0} /\ Fixed(j) \subseteq DOMAIN Bounds
           /\ \A s \in DOMAIN Bounds : SectionStart(j, s) \in Int /\ SectionEnd(j, s) \in Int
           /\ \A s \in Fixed(j) : SectionStart(j, s) \in 0 .. SectionEnd(j, s)
           /\ \A i \in 1 .. Len(HeaderPtrs) : DO[HeaderPtrs[i]] \in Nat
<1>1. j.rom \in File /\ j.patch \in File /\ j.want \in File /\ j.whole \in BOOLEAN /\ j.fmt = "dldi"
  BY JobFormat DEF AllFormats
<1>2. DldiSane(j)
  BY DldiAssumption
<1>3. ASSUME NEW f \in DldiFields PROVE DO[f] \in Nat /\ pDH(j, f) \in Byte
  <2>1. f \in DOMAIN DO
    BY <1>3, DldiAssumption
  <2>2. DO[f] \in Nat /\ DO[f] < Len(j.patch)
    BY <1>2, <2>1, DldiAssumption DEF DldiSane
  <2>3. DO[f] + 1 \in 1 .. Len(j.patch)
    BY <1>1, <2>2 DEF File
  <2> QED  BY <1>1, <2>2, <2>3, FileBytes DEF pDH
<1>4. ASSUME NEW f \in DldiFields PROVE readAddr(j.patch, DO[f]) \in Int
  BY <1>1, <1>3, <1>4, AddressIs
<1>5. "text_start" \in DldiFields /\ "driverSize" \in DldiFields /\ "fixSections" \in DldiFields
  BY DEF DldiFields
<1>6. ddmemStart(j) \in Int
  BY <1>4, <1>5 DEF ddmemStart
<1>7. ddmemSize(j) \in Nat \ {0} /\ Fixed(j) \subseteq DOMAIN Bounds
  BY <1>3, <1>5, DldiAssumption DEF ddmemSize, Fixed
<1>8. ASSUME NEW s \in DOMAIN Bounds PROVE SectionStart(j, s) \in Int /\ SectionEnd(j, s) \in Int
  <2>1. Bounds[s][1] \in DldiFields /\ Bounds[s][2] \in DldiFields
    BY <1>8 DEF Bounds, DldiFields
  <2>2. PICK a \in Int, b \in Int : a = readAddr(j.patch, DO[Bounds[s][1]]) /\ b = readAddr(j.patch, DO[Bounds[s][2]])
    BY <1>4, <2>1
  <2> QED  BY <1>6, <2>2 DEF SectionStart, SectionEnd
<1>9. ASSUME NEW i \in 1 .. Len(HeaderPtrs) PROVE DO[HeaderPtrs[i]] \in Nat
  <2>1. HeaderPtrs[i] \in DOMAIN DO
    BY <1>9, DldiAssumption
  <2> QED  BY <2>1, DldiAssumption
<1> QED  BY <1>1, <1>2, <1>3, <1>6, <1>7, <1>8, <1>9 DEF DldiSane

(* Where the application's driver is and what the memory holds once the      *)
(* driver is copied over it.                                                 *)
LEMMA DldiCopied ==
    ASSUME NEW j \in Jobs("dldi"), quickFind(j) >= 0
    PROVE  /\ quickFind(j) \in 0 .. Len(j.rom) /\ Len(j.rom) \in Nat /\ Relocation(j) \in Int
           /\ DriverCopy(j) \in File /\ Len(DriverCopy(j)) \in Nat /\ Len(DriverCopy(j)) >= Len(j.rom) - quickFind(j)
<1>1. j.rom \in File /\ j.patch \in File /\ Len(j.rom) \in Nat /\ Len(j.patch) \in Nat
  BY DldiGiven DEF File
<1>2. quickFind(j) \in 0 .. Len(j.rom)
  <2>1. Found(j) # {} /\ Found(j) \subseteq 0 .. Len(j.rom)
    BY DEF quickFind, Found
  <2>2. PICK x \in Found(j) : \A y \in Found(j) : x <= y
    <3>1. Found(j) \subseteq Nat
      BY <2>1
    <3> QED  BY <2>1, <3>1, Least
  <2>3. quickFind(j) = Min(Found(j))
    BY <2>1 DEF quickFind
  <2>4. Min(Found(j)) \in Found(j)
    BY <2>2 DEF Min
  <2> QED  BY <2>1, <2>3, <2>4
<1>3. PICK a : a = App(j)
  OBVIOUS
<1>4. a \in File /\ Len(a) = Len(j.rom) - quickFind(j)
  BY <1>1, <1>2, <1>3 DEF App, File
<1>5. DldiSane(j)
  BY DldiAssumption
<1>6. ASSUME NEW f \in DldiFields PROVE DO[f] \in Nat /\ DO[f] + 1 \in 1 .. Len(a) /\ DO[f] + 1 \in 1 .. Len(j.patch)
  <2>1. f \in DOMAIN DO
    BY <1>6, DldiAssumption
  <2>2. DO[f] \in Nat /\ DO[f] < Len(j.patch) /\ DO[f] < Len(a)
    BY <1>3, <1>5, <2>1, DldiAssumption DEF DldiSane
  <2> QED  BY <1>1, <1>4, <2>2 DEF File
<1>7. "text_start" \in DldiFields /\ "startup" \in DldiFields /\ "code" \in DldiFields /\ "allocatedSpace" \in DldiFields
  BY DEF DldiFields
<1>8. PICK k \in 1 .. Len(j.patch) : k = DO["allocatedSpace"] + 1
  BY <1>6, <1>7
<1>9. a[k] \in Byte
  BY <1>4, <1>6, <1>7, <1>8, FileBytes
<1>10. PICK d : d = [j.patch EXCEPT ![k] = a[k]]
  OBVIOUS
<1>11. d \in File
  BY <1>1, <1>9, <1>10 DEF File
<1>12. DriverCopy(j) = Put(a, 0, d)
  BY <1>3, <1>8, <1>10 DEF DriverCopy
<1>13. DriverCopy(j) \in File /\ Len(DriverCopy(j)) >= Len(a)
  BY <1>4, <1>11, <1>12, PutGrows
<1>14. PICK t \in Int, u \in Int, c \in Nat : t = readAddr(a, DO["text_start"]) /\ u = readAddr(a, DO["startup"]) /\ c = DO["code"]
  BY <1>4, <1>6, <1>7, AddressIs
<1>15. memOffset(a) \in Int
  <2>1. u - c \in Int
    BY <1>14
  <2>2. Signed(u - c) \in Int
    BY <2>1, SignedIs
  <2>3. memOffset(a) = IF t # 0 THEN t ELSE Signed(u - c)
    BY <1>14 DEF memOffset
  <2> QED  BY <1>14, <2>2, <2>3
<1>16. Relocation(j) \in Int
  <2>1. ddmemStart(j) \in Int
    BY DldiGiven
  <2>2. memOffset(a) - ddmemStart(j) \in Int
    BY <1>15, <2>1
  <2> QED  BY <1>3, <2>2, SignedIs DEF Relocation
<1> QED  BY <1>1, <1>2, <1>4, <1>13, <1>16 DEF File

(* The addresses of a driver stand apart from each other.                    *)
DldiPtrs(j) == /\ quickFind(j) >= 0 /\ j.ptrs \subseteq 0 .. (Len(DriverCopy(j)) - PtrLen)
               /\ \A p, q \in j.ptrs : p < q => p + PtrLen <= q
LEMMA DldiApart ==
    ASSUME NEW j \in Jobs("dldi"), DldiPtrs(j), NEW p \in j.ptrs, NEW q \in j.ptrs, NEW i \in Int,
           i - p \in 1 .. PtrLen, i - q \in 1 .. PtrLen
    PROVE  p = q
<1>1. p \in Int /\ q \in Int /\ PtrLen \in Int
  BY DldiAssumption, DldiCopied DEF DldiPtrs
<1>2. (p < q => p + PtrLen <= q) /\ (q < p => q + PtrLen <= p)
  BY DEF DldiPtrs
<1> QED  BY <1>1, <1>2

(* The bytes of the memory with the addresses at M moved.                    *)
LEMMA ImageIs ==
    ASSUME NEW j \in Jobs("dldi"), DldiPtrs(j), NEW M \in SUBSET j.ptrs
    PROVE  /\ Image(j, M) \in File /\ Len(Image(j, M)) = Len(DriverCopy(j))
           /\ \A i \in 1 .. Len(DriverCopy(j)) :
                /\ \A p \in M : i - p \in 1 .. PtrLen => Image(j, M)[i] = PtrByte(j, p, i - p)
                /\ (\A p \in M : i - p \notin 1 .. PtrLen) => Image(j, M)[i] = DriverCopy(j)[i]
<1>1. PICK c : c = DriverCopy(j)
  OBVIOUS
<1>2. c \in File /\ Len(c) \in Nat /\ Relocation(j) \in Int
  BY <1>1, DldiCopied DEF DldiPtrs
<1>3. M \subseteq Nat /\ PtrLen \in 1 .. 4
  BY <1>1, DldiAssumption DEF DldiPtrs
<1>4. ASSUME NEW p \in M, NEW i \in 1 .. PtrLen PROVE PtrByte(j, p, i) \in Byte
  <2>1. p \in Nat
    BY <1>3
  <2>2. readAddr(c, p) \in Int
    BY <1>2, <2>1, AddressIs
  <2>3. PICK v \in Int : v = readAddr(c, p) + Relocation(j)
    BY <1>2, <2>2
  <2>4. i \in 1 .. 5
    BY <1>3
  <2>5. (v \div Weight[i]) % Base \in Byte
    BY <2>4, WeightIs, DigitByte
  <2> QED  BY <1>1, <2>3, <2>5 DEF PtrByte
<1> DEFINE B(i) == IF \E p \in M : i - p \in 1 .. PtrLen
                   THEN PtrByte(j, CHOOSE p \in M : i - p \in 1 .. PtrLen, i - (CHOOSE p \in M : i - p \in 1 .. PtrLen))
                   ELSE c[i]
<1>5. Image(j, M) = [i \in 1 .. Len(c) |-> B(i)]
  BY <1>1, Zenon DEF Image
<1>6. ASSUME NEW i \in 1 .. Len(c), NEW p \in M, i - p \in 1 .. PtrLen PROVE B(i) = PtrByte(j, p, i - p)
  <2>1. PICK q : q = CHOOSE r \in M : i - r \in 1 .. PtrLen
    OBVIOUS
  <2>2. q \in M /\ i - q \in 1 .. PtrLen
    BY <1>6, <2>1
  <2>3. q = p
    BY <1>6, <2>2, DldiApart
  <2>4. B(i) = PtrByte(j, q, i - q)
    BY <1>6, <2>1
  <2> QED  BY <2>3, <2>4
<1>7. ASSUME NEW i \in 1 .. Len(c), \A p \in M : i - p \notin 1 .. PtrLen PROVE B(i) = c[i]
  BY <1>7
<1>8. ASSUME NEW i \in 1 .. Len(c) PROVE B(i) \in Byte
  <2>1. CASE \E p \in M : i - p \in 1 .. PtrLen
    <3>1. PICK p \in M : i - p \in 1 .. PtrLen
      BY <2>1
    <3> HIDE DEF B
    <3> QED  BY <1>4, <1>6, <3>1
  <2>2. CASE \A p \in M : i - p \notin 1 .. PtrLen
    <3> HIDE DEF B
    <3> QED  BY <1>2, <1>7, <2>2, FileBytes
  <2> QED  BY <2>1, <2>2
<1> HIDE DEF B
<1>9. Image(j, M) \in [1 .. Len(c) -> Byte]
  BY <1>5, <1>8
<1>10. Image(j, M) \in File /\ Len(Image(j, M)) = Len(c)
  BY <1>2, <1>9 DEF File
<1>11. ASSUME NEW i \in 1 .. Len(c) PROVE Image(j, M)[i] = B(i)
  BY <1>5
<1> QED  BY <1>1, <1>6, <1>7, <1>10, <1>11

(* An address that is not moved yet reads as the driver has it, and moving   *)
(* it moves no other.                                                        *)
LEMMA ImageMoves ==
    ASSUME NEW j \in Jobs("dldi"), DldiPtrs(j), NEW M \in SUBSET j.ptrs, NEW p \in j.ptrs \ M
    PROVE  writeAddr(Image(j, M), p, readAddr(Image(j, M), p) + Relocation(j)) = Image(j, M \cup {p})
<1>1. PICK c, f, g : c = DriverCopy(j) /\ f = Image(j, M) /\ g = Image(j, M \cup {p})
  OBVIOUS
<1>2. c \in File /\ Len(c) \in Nat /\ Relocation(j) \in Int
  BY <1>1, DldiCopied DEF DldiPtrs
<1>3. f \in File /\ Len(f) = Len(c) /\ g \in File /\ Len(g) = Len(c)
  BY <1>1, ImageIs
<1>4. j.ptrs \subseteq Nat /\ p \in Nat /\ PtrLen \in 1 .. 4 /\ PtrLen \in Nat /\ p + PtrLen <= Len(c)
  BY <1>1, <1>2, DldiAssumption DEF DldiPtrs
<1>5. ASSUME NEW q \in M, NEW i \in Int, i - p \in 1 .. PtrLen PROVE i - q \notin 1 .. PtrLen
  BY <1>5, DldiApart
<1>6. Slice(f, p, PtrLen) = Slice(c, p, PtrLen)
  <2>1. PICK s, t : s = Slice(f, p, PtrLen) /\ t = Slice(c, p, PtrLen)
    OBVIOUS
  <2>2. s \in File /\ t \in File /\ Len(s) = PtrLen /\ Len(t) = PtrLen
    BY <1>2, <1>3, <1>4, <2>1, SliceFile
  <2>3. ASSUME NEW i \in 1 .. PtrLen PROVE s[i] = t[i]
    <3>1. s[i] = f[p + i] /\ t[i] = c[p + i]
      BY <1>2, <1>3, <1>4, <2>1, SliceBytes
    <3>2. PICK k \in 1 .. Len(c) : k = p + i /\ k - p \in 1 .. PtrLen
      BY <1>2, <1>4
    <3>3. \A q \in M : k - q \notin 1 .. PtrLen
      <4>1. k \in Int
        OBVIOUS
      <4> QED  BY <1>5, <3>2, <4>1
    <3>4. f[k] = c[k]
      BY <1>1, <3>3, ImageIs
    <3> QED  BY <3>1, <3>2, <3>4
  <2> QED  BY <2>1, <2>2, <2>3, SameFile
<1>7. PICK v \in Int : v = readAddr(c, p) + Relocation(j)
  <2>1. readAddr(c, p) \in Int
    BY <1>2, <1>4, AddressIs
  <2> QED  BY <1>2, <2>1
<1>8. readAddr(f, p) + Relocation(j) = v
  BY <1>6, <1>7 DEF readAddr
<1>9. PICK d, w : d = AddrBytes(v) /\ w = writeAddr(f, p, v)
  OBVIOUS
<1>10. d \in File /\ Len(d) = PtrLen /\ d # <<>> /\ w = Put(f, p, d) /\ \A i \in 1 .. PtrLen : d[i] = (v \div Weight[i]) % Base
  BY <1>3, <1>4, <1>9, WriteAddrIs
<1>11. ASSUME NEW i \in 1 .. PtrLen PROVE d[i] = PtrByte(j, p, i)
  BY <1>1, <1>7, <1>10 DEF PtrByte
<1>12. /\ w \in File /\ Len(w) = Len(c)
       /\ \A i \in 1 .. Len(c) : w[i] = IF p < i /\ i <= p + PtrLen THEN d[i - p] ELSE f[i]
  <2>1. /\ w \in File /\ Len(w) = IF p + Len(d) < Len(f) THEN Len(f) ELSE p + Len(d)
        /\ \A i \in 1 .. Len(w) : w[i] = IF p < i /\ i <= p + Len(d) THEN d[i - p] ELSE IF i <= Len(f) THEN f[i] ELSE 0
    <3>1. /\ Put(f, p, d) \in File
          /\ Len(Put(f, p, d)) = IF p + Len(d) < Len(f) THEN Len(f) ELSE p + Len(d)
          /\ \A i \in 1 .. Len(Put(f, p, d)) :
               Put(f, p, d)[i] = IF p < i /\ i <= p + Len(d) THEN d[i - p] ELSE IF i <= Len(f) THEN f[i] ELSE 0
      BY <1>3, <1>4, <1>10, PutBytes, ZenonT(40), SMTT(30)
    <3> QED  BY <1>10, <3>1, Zenon
  <2>2. Len(w) = Len(c)
    BY <1>2, <1>3, <1>4, <1>10, <2>1
  <2> QED  BY <1>2, <1>3, <1>10, <2>1, <2>2
<1>13. ASSUME NEW i \in 1 .. Len(c) PROVE w[i] = g[i]
  <2>1. CASE i - p \in 1 .. PtrLen
    <3>1. w[i] = d[i - p]
      BY <1>2, <1>4, <1>12, <2>1
    <3>2. w[i] = PtrByte(j, p, i - p)
      BY <1>11, <2>1, <3>1
    <3>3. M \cup {p} \in SUBSET j.ptrs /\ p \in M \cup {p}
      OBVIOUS
    <3>4. g[i] = PtrByte(j, p, i - p)
      BY <1>1, <2>1, <3>3, ImageIs
    <3> QED  BY <3>2, <3>4
  <2>2. CASE i - p \notin 1 .. PtrLen
    <3>1. w[i] = f[i]
      BY <1>2, <1>4, <1>12, <2>2
    <3>2. M \cup {p} \in SUBSET j.ptrs
      OBVIOUS
    <3>3. CASE \E q \in M : i - q \in 1 .. PtrLen
      <4>1. PICK q \in M : i - q \in 1 .. PtrLen
        BY <3>3
      <4>2. f[i] = PtrByte(j, q, i - q)
        BY <1>1, <4>1, ImageIs
      <4>3. g[i] = PtrByte(j, q, i - q)
        <5>1. q \in M \cup {p}
          OBVIOUS
        <5> QED  BY <1>1, <3>2, <4>1, <5>1, ImageIs
      <4> QED  BY <3>1, <4>2, <4>3
    <3>4. CASE \A q \in M : i - q \notin 1 .. PtrLen
      <4>1. f[i] = c[i]
        BY <1>1, <3>4, ImageIs
      <4>2. \A q \in M \cup {p} : i - q \notin 1 .. PtrLen
        BY <2>2, <3>4
      <4>3. g[i] = c[i]
        BY <1>1, <3>2, <4>2, ImageIs
      <4> QED  BY <3>1, <4>1, <4>3
    <3> QED  BY <3>3, <3>4
  <2> QED  BY <2>1, <2>2
<1>14. w = g
  BY <1>3, <1>12, <1>13, SameFile
<1> QED  BY <1>1, <1>8, <1>9, <1>14

(* Where a DLDI call is, and how far its driver is moved.                    *)
DldiLocals == [pAH : File, relocationOffset : Int, n : Nat, io : BOOLEAN]
DldiPast == [all |-> {}, glue |-> {"all"}, got |-> {"all", "glue"}, bss |-> {"all", "glue", "got"}]
DldiType ==
    /\ job \in Jobs("dldi") /\ FileTypes /\ loc \in DldiLocals
    /\ pc \in {"open", "header", "done"} \cup DOMAIN DldiPast
    /\ pc = "open" => loc.n = 0
    /\ pc # "done" => out = job.rom /\ disk = job.rom
    /\ pc \notin {"open", "done"} => at = quickFind(job) /\ quickFind(job) >= 0 /\ loc.relocationOffset = Relocation(job)
DldiHeaderUpTo(n) == {DO[HeaderPtrs[i]] : i \in 1 .. n}
DldiGone(j, q, n, M) == \A s \in Searched(j) : \A p \in j.ptrs : p \in Section(j, s) /\ (s \in DldiPast[q] \/ (s = q /\ p < SectionStart(j, s) + n)) => p \in M
DldiPlace ==
    /\ pc = "header" => loc.n <= Len(HeaderPtrs) /\ loc.pAH = Image(job, DldiHeaderUpTo(loc.n))
    /\ pc \in DOMAIN DldiPast => \E M \in SUBSET job.ptrs : /\ Header \subseteq M /\ loc.pAH = Image(job, M)
                                                            /\ DldiGone(job, pc, loc.n, M)
DldiIInv == DldiType /\ (job.whole => DldiPlace) /\ DldiRelocated

(* Locals that are set keep their types.                                     *)
LEMMA DldiSet == \A l \in DldiLocals : /\ \A f \in File, r \in Int : [l EXCEPT !.pAH = f, !.relocationOffset = r] \in DldiLocals
                                       /\ \A k \in Nat, f \in File : [l EXCEPT !.n = k, !.pAH = f] \in DldiLocals
                                       /\ \A k \in Nat : [l EXCEPT !.n = k] \in DldiLocals
                                       /\ \A b \in BOOLEAN : [l EXCEPT !.io = b] \in DldiLocals
<1>1. ASSUME NEW l \in DldiLocals, NEW f \in File, NEW r \in Int PROVE [l EXCEPT !.pAH = f, !.relocationOffset = r] \in DldiLocals
  BY <1>1 DEF DldiLocals
<1>2. ASSUME NEW l \in DldiLocals, NEW k \in Nat, NEW f \in File PROVE [l EXCEPT !.n = k, !.pAH = f] \in DldiLocals
  BY <1>2 DEF DldiLocals
<1>3. ASSUME NEW l \in DldiLocals, NEW k \in Nat PROVE [l EXCEPT !.n = k] \in DldiLocals
  BY <1>3 DEF DldiLocals
<1>4. ASSUME NEW l \in DldiLocals, NEW b \in BOOLEAN PROVE [l EXCEPT !.io = b] \in DldiLocals
  BY <1>4 DEF DldiLocals
<1> QED  BY <1>1, <1>2, <1>3, <1>4, Zenon

(* An intact driver for an application that has room for it.                 *)
LEMMA DldiMadeIs ==
    ASSUME NEW j \in Jobs("dldi"), j.whole
    PROVE  /\ DldiPtrs(j) /\ Usable(j) /\ Header \subseteq j.ptrs
           /\ \A p \in j.ptrs \ Header : \E s \in Searched(j) : p \in Section(j, s)
           /\ \A M \in SUBSET j.ptrs : Header \subseteq M =>
                \A s \in Searched(j) : \A a \in Section(j, s) : InDriver(j, readAddr(Image(j, M), a)) <=> a \in j.ptrs \ M
<1>1. DldiMade(j)
  BY DldiAssumption
<1>2. ASSUME NEW M \in SUBSET j.ptrs, Header \subseteq M, NEW s \in Searched(j), NEW a \in Section(j, s)
      PROVE  InDriver(j, readAddr(Image(j, M), a)) <=> a \in j.ptrs \ M
  <2>1. \E m \in {Image(j, M)} : \A t \in Searched(j) : \A b \in Section(j, t) : InDriver(j, readAddr(m, b)) <=> b \in j.ptrs \ M
    BY <1>1, <1>2, Zenon DEF DldiMade
  <2>2. \A t \in Searched(j) : \A b \in Section(j, t) : InDriver(j, readAddr(Image(j, M), b)) <=> b \in j.ptrs \ M
    BY <2>1, Zenon
  <2> QED  BY <1>2, <2>2, Zenon
<1>3. DldiPtrs(j) /\ Usable(j) /\ Header \subseteq j.ptrs /\ \A p \in j.ptrs \ Header : \E s \in Searched(j) : p \in Section(j, s)
  BY <1>1, Zenon DEF DldiMade, DldiPtrs
<1> QED  BY <1>2, <1>3, Zenon

(* Opening the files puts the driver in the application's place.             *)
LEMMA DldiOpens == ASSUME DldiIInv, dldipatch PROVE DldiIInv'
<1>1. /\ job \in Jobs("dldi") /\ FileTypes /\ loc \in DldiLocals /\ out = job.rom /\ disk = job.rom /\ loc.n = 0 /\ pc = "open"
      /\ job' = job /\ out' = out /\ job.fmt = "dldi"
  BY DldiGiven DEF DldiIInv, DldiType, dldipatch
<1>2. CASE (Close(1) \/ (Close(2) /\ quickFind(job) = -1)) /\ UNCHANGED <<at, loc>>
  <2>1. FileTypes'
    <3>1. 1 \in Int /\ 2 \in Int
      OBVIOUS
    <3> QED  BY <1>1, <1>2, <3>1, CloseTypes
  <2>2. pc' = "done" /\ ret' \in {1, 2} /\ disk' = job.rom /\ loc' = loc /\ job' = job
    BY <1>1, <1>2 DEF Close
  <2>3. DldiType'
    BY <1>1, <2>1, <2>2 DEF DldiType
  <2>4. DldiPlace'
    BY <2>2 DEF DldiPlace, DldiPast
  <2>5. job.whole => quickFind(job) # -1
    <3>1. ASSUME job.whole PROVE quickFind(job) # -1
      <4>1. quickFind(job) >= 0
        BY <1>1, <3>1, DldiMadeIs DEF DldiPtrs
      <4> QED  BY <4>1
    <3> QED  BY <3>1
  <2>6. DldiRelocated'
    BY <1>1, <1>2, <2>2, <2>5 DEF DldiRelocated, Close
  <2> QED  BY <2>3, <2>4, <2>6 DEF DldiIInv
<1>3. CASE /\ quickFind(job) >= 0 /\ at' = quickFind(job) /\ pc' = "header" /\ UNCHANGED <<ret, disk>>
           /\ loc' = [loc EXCEPT !.pAH = DriverCopy(job), !.relocationOffset = Relocation(job)]
  <2>1. PICK f \in File, r \in Int : f = DriverCopy(job) /\ r = Relocation(job)
    BY <1>1, <1>3, DldiCopied
  <2>2. loc' = [loc EXCEPT !.pAH = f, !.relocationOffset = r]
    BY <1>3, <2>1
  <2>3. loc' \in DldiLocals
    BY <1>1, <2>2, DldiSet, Zenon
  <2>4. loc'.pAH = f /\ loc'.relocationOffset = r /\ loc'.n = 0
    BY <1>1, <2>2 DEF DldiLocals
  <2>5. quickFind(job) \in Nat
    BY <1>1, <1>3, DldiCopied
  <2>6. DldiType'
    BY <1>1, <1>3, <2>1, <2>3, <2>4, <2>5 DEF DldiType, FileTypes
  <2>7. ASSUME job.whole PROVE DldiPlace'
    <3>1. DldiPtrs(job) /\ DldiHeaderUpTo(0) = {} /\ {} \in SUBSET job.ptrs
      BY <1>1, <2>7, DldiMadeIs DEF DldiHeaderUpTo
    <3>2. PICK g : g = Image(job, {})
      OBVIOUS
    <3>3. g \in File /\ Len(g) = Len(f) /\ \A i \in 1 .. Len(f) : g[i] = f[i]
      BY <1>1, <2>1, <3>1, <3>2, ImageIs
    <3>4. g = f
      BY <2>1, <3>3, SameFile
    <3>5. Len(HeaderPtrs) \in Nat
      BY DldiAssumption
    <3>6. loc'.n <= Len(HeaderPtrs) /\ loc'.pAH = Image(job', DldiHeaderUpTo(loc'.n))
      <4>1. loc'.pAH = Image(job, DldiHeaderUpTo(0))
        BY <2>4, <3>1, <3>2, <3>4
      <4> QED  BY <1>1, <2>4, <3>5, <4>1
    <3>7. pc' = "header" /\ pc' \notin DOMAIN DldiPast
      BY <1>3 DEF DldiPast
    <3> QED  BY <3>6, <3>7 DEF DldiPlace
  <2>8. DldiRelocated'
    BY <1>3 DEF DldiRelocated
  <2> QED  BY <1>1, <2>6, <2>7, <2>8 DEF DldiIInv
<1>4. \/ (Close(1) \/ (Close(2) /\ quickFind(job) = -1)) /\ UNCHANGED <<at, loc>>
      \/ /\ quickFind(job) >= 0 /\ at' = quickFind(job) /\ pc' = "header" /\ UNCHANGED <<ret, disk>>
         /\ loc' = [loc EXCEPT !.pAH = DriverCopy(job), !.relocationOffset = Relocation(job)]
  BY DEF dldipatch
<1> QED  BY <1>2, <1>3, <1>4

(* The memory with one address moved.                                        *)
LEMMA MovedIs ==
    ASSUME loc \in DldiLocals, NEW k \in Nat, NEW m \in Moved(k)
    PROVE  m = writeAddr(loc.pAH, k, readAddr(loc.pAH, k) + loc.relocationOffset) /\ m \in File
<1>1. m = writeAddr(loc.pAH, k, readAddr(loc.pAH, k) + loc.relocationOffset)
  BY DEF Moved
<1>2. loc.pAH \in File /\ loc.relocationOffset \in Int
  BY DEF DldiLocals
<1>3. PICK v \in Int : v = readAddr(loc.pAH, k) + loc.relocationOffset
  <2>1. readAddr(loc.pAH, k) \in Int
    BY <1>2, AddressIs
  <2> QED  BY <1>2, <2>1
<1> QED  BY <1>1, <1>2, <1>3, WriteAddrIs

(* The addresses of the header are moved one by one.                         *)
LEMMA DldiHeader == ASSUME DldiIInv, FixHeader PROVE DldiIInv'
<1>1. /\ job \in Jobs("dldi") /\ FileTypes /\ loc \in DldiLocals /\ out = job.rom /\ disk = job.rom /\ pc = "header"
      /\ at = quickFind(job) /\ quickFind(job) >= 0 /\ loc.relocationOffset = Relocation(job)
      /\ job' = job /\ out' = out /\ disk' = disk /\ at' = at /\ ret' = ret
  BY DEF DldiIInv, DldiType, FixHeader
<1>2. loc.n \in Nat /\ loc.pAH \in File /\ Len(HeaderPtrs) \in Nat
  BY <1>1, DldiAssumption DEF DldiLocals
<1>3. quickFind(job') = quickFind(job) /\ Relocation(job') = Relocation(job) /\ FileTypes'
  BY <1>1 DEF FileTypes
<1>4. CASE /\ loc.n < Len(HeaderPtrs) /\ pc' = pc
           /\ \E m \in Moved(DO[HeaderPtrs[loc.n + 1]]) : loc' = [loc EXCEPT !.n = @ + 1, !.pAH = m]
  <2>1. PICK k \in 1 .. Len(HeaderPtrs) : k = loc.n + 1
    BY <1>2, <1>4
  <2>2. PICK p \in Nat : p = DO[HeaderPtrs[k]]
    BY <1>1, DldiGiven
  <2>3. PICK m \in Moved(p) : loc' = [loc EXCEPT !.n = k, !.pAH = m]
    BY <1>4, <2>1, <2>2
  <2>4. m = writeAddr(loc.pAH, p, readAddr(loc.pAH, p) + Relocation(job)) /\ m \in File
    BY <1>1, MovedIs
  <2>5. loc' \in DldiLocals
    <3>1. k \in Nat
      OBVIOUS
    <3> QED  BY <1>1, <2>3, <2>4, <3>1, DldiSet, Zenon
  <2>6. loc'.n = k /\ loc'.pAH = m /\ loc'.relocationOffset = loc.relocationOffset
    BY <1>1, <2>3 DEF DldiLocals
  <2>7. DldiType'
    BY <1>1, <1>3, <1>4, <2>5, <2>6 DEF DldiType
  <2>8. ASSUME job.whole PROVE DldiPlace'
    <3>1. DldiPtrs(job) /\ Header \subseteq job.ptrs
      BY <1>1, <2>8, DldiMadeIs
    <3>2. PICK M : M = DldiHeaderUpTo(loc.n)
      OBVIOUS
    <3>3. loc.pAH = Image(job, M)
      BY <1>1, <2>8, <3>2 DEF DldiIInv, DldiPlace
    <3>4. M \in SUBSET job.ptrs /\ p \in job.ptrs
      <4>1. ASSUME NEW i \in 1 .. Len(HeaderPtrs) PROVE DO[HeaderPtrs[i]] \in Header
        BY DEF Header
      <4>2. \A i \in 1 .. loc.n : i \in 1 .. Len(HeaderPtrs)
        BY <1>2, <1>4
      <4>3. M \subseteq Header
        BY <3>2, <4>1, <4>2 DEF DldiHeaderUpTo
      <4> QED  BY <2>2, <3>1, <4>1, <4>3
    <3>5. p \notin M
      <4>1. ASSUME NEW i \in 1 .. loc.n PROVE DO[HeaderPtrs[i]] # p
        <5>1. i \in 1 .. Len(HeaderPtrs) /\ i # k
          BY <1>2, <1>4, <2>1
        <5> QED  BY <2>2, <5>1, DldiAssumption
      <4> QED  BY <3>2, <4>1 DEF DldiHeaderUpTo
    <3>6. m = Image(job, M \cup {p})
      BY <1>1, <2>4, <3>1, <3>3, <3>4, <3>5, ImageMoves
    <3>7. M \cup {p} = DldiHeaderUpTo(k)
      <4>1. 1 .. k = 1 .. loc.n \cup {k}
        BY <1>2, <2>1
      <4> QED  BY <2>2, <3>2, <4>1 DEF DldiHeaderUpTo
    <3>8. loc'.n <= Len(HeaderPtrs) /\ loc'.pAH = Image(job', DldiHeaderUpTo(loc'.n))
      <4>1. m = Image(job, DldiHeaderUpTo(k))
        BY <3>6, <3>7, Zenon
      <4>2. loc'.n <= Len(HeaderPtrs)
        BY <1>2, <2>6
      <4> QED  BY <1>1, <2>6, <4>1, <4>2, Zenon
    <3>9. pc' = "header" /\ pc' \notin DOMAIN DldiPast
      BY <1>1, <1>4 DEF DldiPast
    <3> QED  BY <3>8, <3>9 DEF DldiPlace
  <2>9. DldiRelocated'
    BY <1>1, <1>4 DEF DldiRelocated
  <2> QED  BY <1>1, <2>7, <2>8, <2>9 DEF DldiIInv
<1>5. CASE loc.n = Len(HeaderPtrs) /\ loc' = [loc EXCEPT !.n = 0] /\ pc' = "all"
  <2>1. PICK z \in Nat : z = 0
    OBVIOUS
  <2>2. loc' = [loc EXCEPT !.n = z]
    BY <1>5, <2>1
  <2>3. loc' \in DldiLocals
    BY <1>1, <2>2, DldiSet, Zenon
  <2>4. loc'.n = 0 /\ loc'.pAH = loc.pAH /\ loc'.relocationOffset = loc.relocationOffset
    BY <1>1, <1>5 DEF DldiLocals
  <2>5. DldiType'
    <3>1. "all" \in DOMAIN DldiPast
      BY DEF DldiPast
    <3> QED  BY <1>1, <1>3, <1>5, <2>3, <2>4, <3>1 DEF DldiType
  <2>6. ASSUME job.whole PROVE DldiPlace'
    <3>1. Header \in SUBSET job.ptrs
      BY <1>1, <2>6, DldiMadeIs
    <3>2. loc.pAH = Image(job, Header)
      <4>1. loc.pAH = Image(job, DldiHeaderUpTo(loc.n))
        BY <1>1, <2>6 DEF DldiIInv, DldiPlace
      <4> QED  BY <1>5, <4>1 DEF DldiHeaderUpTo, Header
    <3>3. DldiGone(job, "all", 0, Header)
      <4>1. ASSUME NEW s \in Searched(job), NEW p, p \in Section(job, s) PROVE ~(p < SectionStart(job, s) + 0)
        <5>1. s \in DOMAIN Bounds
          BY <1>1, DldiGiven DEF Searched
        <5>2. SectionStart(job, s) \in Int /\ SectionEnd(job, s) \in Int
          BY <1>1, <5>1, DldiGiven
        <5> QED  BY <4>1, <5>2 DEF Section
      <4>2. \A s : s \notin DldiPast["all"]
        BY DEF DldiPast
      <4> QED  BY <4>1, <4>2 DEF DldiGone
    <3>4. \E M \in SUBSET job'.ptrs : Header \subseteq M /\ loc'.pAH = Image(job', M) /\ DldiGone(job', pc', loc'.n, M)
      BY <1>1, <1>5, <2>4, <3>1, <3>2, <3>3
    <3>5. pc' # "header"
      BY <1>5
    <3> QED  BY <3>4, <3>5 DEF DldiPlace
  <2>7. DldiRelocated'
    BY <1>5 DEF DldiRelocated
  <2> QED  BY <1>1, <2>5, <2>6, <2>7 DEF DldiIInv
<1> QED  BY <1>4, <1>5 DEF FixHeader

(* A section is searched byte by byte: an address of it is moved once.       *)
LEMMA DldiSearch == ASSUME DldiIInv, FixSection PROVE DldiIInv'
<1>1. /\ job \in Jobs("dldi") /\ FileTypes /\ loc \in DldiLocals /\ out = job.rom /\ disk = job.rom
      /\ at = quickFind(job) /\ quickFind(job) >= 0 /\ loc.relocationOffset = Relocation(job)
      /\ job' = job /\ out' = out /\ disk' = disk /\ at' = at /\ ret' = ret
  BY DEF DldiIInv, DldiType, FixSection, After3
<1>2. pc \in {"all", "glue", "got"} /\ pc \in DOMAIN DldiPast /\ pc \in DOMAIN After3 /\ pc \in DOMAIN Bounds
  BY DEF FixSection, After3, DldiPast, Bounds
<1>3. loc.n \in Nat /\ loc.pAH \in File /\ SectionStart(job, pc) \in Int /\ SectionEnd(job, pc) \in Int
      /\ (pc \in Fixed(job) => SectionStart(job, pc) >= 0)
  BY <1>1, <1>2, DldiGiven DEF DldiLocals
<1>4. FileTypes'
  BY <1>1 DEF FileTypes
<1>5. PICK k \in Int : k = SectionStart(job, pc) + loc.n
  BY <1>3
<1>6. \/ /\ pc \in Fixed(job) /\ k < SectionEnd(job, pc) /\ pc' = pc
         /\ \E m \in IF InDriver(job, readAddr(loc.pAH, k)) THEN Moved(k) ELSE {loc.pAH} : loc' = [loc EXCEPT !.n = @ + 1, !.pAH = m]
      \/ ~(pc \in Fixed(job) /\ k < SectionEnd(job, pc)) /\ loc' = [loc EXCEPT !.n = 0] /\ pc' = After3[pc]
  <2>1. \E addrIter \in {k} :
         LET more == pc \in Fixed(job) /\ addrIter < SectionEnd(job, pc) IN
         \/ /\ more /\ pc' = pc
            /\ \E a \in {Word(addrIter)} :
                 \E m \in IF InDriver(job, a) THEN Moved(addrIter) ELSE {loc.pAH} :
                   loc' = [loc EXCEPT !.n = @ + 1, !.pAH = m]
         \/ ~more /\ loc' = [loc EXCEPT !.n = 0] /\ pc' = After3[pc]
    BY <1>5, Zenon DEF FixSection
  <2> QED  BY <2>1, Zenon DEF Word
<1>7. CASE /\ pc \in Fixed(job) /\ k < SectionEnd(job, pc) /\ pc' = pc
           /\ \E m \in IF InDriver(job, readAddr(loc.pAH, k)) THEN Moved(k) ELSE {loc.pAH} : loc' = [loc EXCEPT !.n = @ + 1, !.pAH = m]
  <2>1. k \in Nat /\ k \in Section(job, pc)
    BY <1>3, <1>5, <1>7 DEF Section
  <2>2. PICK i \in Nat : i = loc.n + 1
    BY <1>3
  <2>3. PICK m : /\ m \in IF InDriver(job, readAddr(loc.pAH, k)) THEN Moved(k) ELSE {loc.pAH}
                 /\ loc' = [loc EXCEPT !.n = i, !.pAH = m]
    BY <1>7, <2>2
  <2>4. m \in File /\ (~InDriver(job, readAddr(loc.pAH, k)) => m = loc.pAH)
        /\ (InDriver(job, readAddr(loc.pAH, k)) => m = writeAddr(loc.pAH, k, readAddr(loc.pAH, k) + Relocation(job)))
    <3>1. CASE InDriver(job, readAddr(loc.pAH, k))
      BY <1>1, <2>1, <2>3, <3>1, MovedIs
    <3>2. CASE ~InDriver(job, readAddr(loc.pAH, k))
      BY <1>3, <2>3, <3>2
    <3> QED  BY <3>1, <3>2
  <2>5. loc' \in DldiLocals
    BY <1>1, <2>2, <2>3, <2>4, DldiSet, Zenon
  <2>6. loc'.n = i /\ loc'.pAH = m /\ loc'.relocationOffset = loc.relocationOffset
    BY <1>1, <2>3 DEF DldiLocals
  <2>7. DldiType'
    BY <1>1, <1>2, <1>4, <1>7, <2>5, <2>6 DEF DldiType
  <2>8. ASSUME job.whole PROVE DldiPlace'
    <3>1. PICK M \in SUBSET job.ptrs : Header \subseteq M /\ loc.pAH = Image(job, M) /\ DldiGone(job, pc, loc.n, M)
      BY <1>2, <2>8 DEF DldiIInv, DldiPlace
    <3>2. DldiPtrs(job) /\ pc \in Searched(job)
      BY <1>1, <1>2, <1>7, <2>8, DldiMadeIs DEF Searched
    <3>3. InDriver(job, readAddr(loc.pAH, k)) <=> k \in job.ptrs \ M
      BY <1>1, <2>1, <2>8, <3>1, <3>2, DldiMadeIs
    <3>4. PICK N : N = IF k \in job.ptrs THEN M \cup {k} ELSE M
      OBVIOUS
    <3>5. N \in SUBSET job.ptrs /\ Header \subseteq N /\ M \subseteq N /\ (k \in job.ptrs => k \in N)
      BY <3>1, <3>4
    <3>6. m = Image(job, N)
      <4>1. CASE k \in job.ptrs \ M
        <5>1. m = writeAddr(Image(job, M), k, readAddr(Image(job, M), k) + Relocation(job))
          BY <2>4, <3>1, <3>3, <4>1
        <5>2. m = Image(job, M \cup {k})
          BY <1>1, <3>2, <4>1, <5>1, ImageMoves
        <5> QED  BY <3>4, <4>1, <5>2, Zenon
      <4>2. CASE k \notin job.ptrs \ M
        <5>1. N = M
          BY <3>4, <4>2
        <5> QED  BY <2>4, <3>1, <3>3, <4>2, <5>1
      <4> QED  BY <4>1, <4>2
    <3>7. DldiGone(job, pc, i, N)
      <4>1. ASSUME NEW s \in Searched(job), NEW p \in job.ptrs, p \in Section(job, s),
                   s \in DldiPast[pc] \/ (s = pc /\ p < SectionStart(job, s) + i)
            PROVE  p \in N
        <5>1. CASE s \in DldiPast[pc] \/ (s = pc /\ p < SectionStart(job, s) + loc.n)
          BY <3>1, <3>5, <4>1, <5>1 DEF DldiGone
        <5>2. CASE s = pc /\ ~(p < SectionStart(job, s) + loc.n) /\ p < SectionStart(job, s) + i
          <6>1. p \in Int
            BY <1>3, <4>1, <5>2 DEF Section
          <6>2. p = k
            BY <1>3, <1>5, <2>2, <5>2, <6>1
          <6> QED  BY <3>5, <4>1, <6>2
        <5> QED  BY <4>1, <5>1, <5>2
      <4> QED  BY <4>1 DEF DldiGone
    <3>8. \E S \in SUBSET job'.ptrs : Header \subseteq S /\ loc'.pAH = Image(job', S) /\ DldiGone(job', pc', loc'.n, S)
      BY <1>1, <1>7, <2>6, <3>5, <3>6, <3>7
    <3>9. pc' # "header"
      BY <1>2, <1>7
    <3> QED  BY <3>8, <3>9 DEF DldiPlace
  <2>9. DldiRelocated'
    BY <1>2, <1>7 DEF DldiRelocated
  <2> QED  BY <1>1, <2>7, <2>8, <2>9 DEF DldiIInv
<1>8. CASE ~(pc \in Fixed(job) /\ k < SectionEnd(job, pc)) /\ loc' = [loc EXCEPT !.n = 0] /\ pc' = After3[pc]
  <2>1. PICK z \in Nat : z = 0
    OBVIOUS
  <2>2. loc' = [loc EXCEPT !.n = z]
    BY <1>8, <2>1
  <2>3. loc' \in DldiLocals
    BY <1>1, <2>2, DldiSet, Zenon
  <2>4. loc'.n = 0 /\ loc'.pAH = loc.pAH /\ loc'.relocationOffset = loc.relocationOffset
    BY <1>1, <1>8 DEF DldiLocals
  <2>5. pc' \in {"glue", "got", "bss"} /\ DldiPast[pc'] = DldiPast[pc] \cup {pc} /\ pc' \in DOMAIN DldiPast
    BY <1>2, <1>8 DEF After3, DldiPast
  <2>6. DldiType'
    BY <1>1, <1>4, <2>3, <2>4, <2>5 DEF DldiType
  <2>7. ASSUME job.whole PROVE DldiPlace'
    <3>1. PICK M \in SUBSET job.ptrs : Header \subseteq M /\ loc.pAH = Image(job, M) /\ DldiGone(job, pc, loc.n, M)
      BY <1>2, <2>7 DEF DldiIInv, DldiPlace
    <3>2. DldiGone(job, pc', 0, M)
      <4>1. ASSUME NEW s \in Searched(job), NEW p \in job.ptrs, p \in Section(job, s),
                   s \in DldiPast[pc'] \/ (s = pc' /\ p < SectionStart(job, s) + 0)
            PROVE  p \in M
        <5>1. SectionStart(job, s) \in Int /\ SectionEnd(job, s) \in Int /\ s \in Fixed(job)
          BY <1>1, DldiGiven DEF Searched
        <5>2. p \in Int /\ SectionStart(job, s) <= p /\ p < SectionEnd(job, s)
          BY <4>1, <5>1 DEF Section
        <5>3. s \in DldiPast[pc] \/ s = pc
          BY <2>5, <4>1, <5>1, <5>2
        <5>4. s = pc => p < SectionStart(job, s) + loc.n
          BY <1>3, <1>5, <1>8, <5>1, <5>2
        <5> QED  BY <3>1, <4>1, <5>3, <5>4 DEF DldiGone
      <4> QED  BY <4>1 DEF DldiGone
    <3>3. \E S \in SUBSET job'.ptrs : Header \subseteq S /\ loc'.pAH = Image(job', S) /\ DldiGone(job', pc', loc'.n, S)
      BY <1>1, <2>4, <3>1, <3>2
    <3>4. pc' # "header"
      BY <2>5
    <3> QED  BY <3>3, <3>4 DEF DldiPlace
  <2>8. DldiRelocated'
    BY <2>5 DEF DldiRelocated
  <2> QED  BY <1>1, <2>6, <2>7, <2>8 DEF DldiIInv
<1> QED  BY <1>6, <1>7, <1>8

(* What an intact driver makes of the application.                           *)
LEMMA DldiWanted ==
    ASSUME NEW j \in Jobs("dldi"), j.whole
    PROVE  /\ Len(j.want) = Len(j.rom) /\ quickFind(j) + ddmemSize(j) <= Len(j.rom)
           /\ \A i \in 1 .. Len(j.want) :
                j.want[i] = IF i - quickFind(j) \notin 1 .. ddmemSize(j) THEN j.rom[i]
                            ELSE IF "bss" \in Fixed(j) /\ (i - quickFind(j)) - 1 \in Section(j, "bss") THEN 0
                            ELSE Image(j, j.ptrs)[i - quickFind(j)]
<1>1. DldiMade(j)
  BY DldiAssumption
<1> QED  BY <1>1, ZenonT(40), SMTT(30) DEF DldiMade

(* Clearing the bss of the memory touches nothing else.                      *)
LEMMA DldiClears ==
    ASSUME job \in Jobs("dldi"), loc.pAH \in File
    PROVE  /\ Cleared \in File /\ Len(Cleared) >= Len(loc.pAH)
           /\ \A i \in 1 .. Len(loc.pAH) :
                Cleared[i] = IF "bss" \in Fixed(job) /\ i - 1 \in Section(job, "bss") THEN 0 ELSE loc.pAH[i]
<1>1. PICK m \in File : m = loc.pAH
  OBVIOUS
<1>2. CASE "bss" \notin Fixed(job)
  <2>1. Cleared = m /\ Len(m) \in Nat
    BY <1>1, <1>2 DEF Cleared, File
  <2> QED  BY <1>1, <1>2, <2>1
<1>3. CASE "bss" \in Fixed(job)
  <2>1. SectionStart(job, "bss") \in 0 .. SectionEnd(job, "bss") /\ "bss" \in DOMAIN Bounds
    BY <1>3, DldiGiven
  <2>2. SectionEnd(job, "bss") \in Int /\ SectionStart(job, "bss") \in Int
    BY <2>1, DldiGiven
  <2>3. PICK s \in Nat, e \in Nat : s = SectionStart(job, "bss") /\ e = SectionEnd(job, "bss") /\ s <= e
    BY <2>1, <2>2
  <2>4. PICK n \in Nat : n = e - s
    BY <2>3
  <2>5. PICK d : d = Fill(n, 0)
    OBVIOUS
  <2>6. d \in File /\ Len(d) = n /\ \A i \in 1 .. n : d[i] = 0
    BY <2>5, FillFile DEF Fill
  <2>7. Cleared = Put(m, s, d) /\ Len(m) \in Nat
    BY <1>1, <1>3, <2>3, <2>4, <2>5 DEF Cleared, File
  <2>8. ASSUME NEW i \in 1 .. Len(m) PROVE (i - 1 \in Section(job, "bss")) <=> (s < i /\ i <= s + n)
    BY <2>3, <2>4, <2>7, SMTT(30), ZenonT(30) DEF Section
  <2>9. CASE n = 0
    <3>1. d = <<>>
      BY <2>6, <2>9 DEF File
    <3>2. Cleared = m
      BY <2>7, <3>1 DEF Put
    <3>3. ASSUME NEW i \in 1 .. Len(m) PROVE i - 1 \notin Section(job, "bss")
      BY <2>3, <2>7, <2>8, <2>9
    <3> QED  BY <1>1, <2>7, <3>2, <3>3
  <2>10. CASE n # 0
    <3>1. d # <<>>
      BY <2>6, <2>10
    <3>2. PICK w : w = Put(m, s, d)
      OBVIOUS
    <3>3. /\ w \in File /\ Len(w) = IF s + Len(d) < Len(m) THEN Len(m) ELSE s + Len(d)
          /\ \A i \in 1 .. Len(w) : w[i] = IF s < i /\ i <= s + Len(d) THEN d[i - s] ELSE IF i <= Len(m) THEN m[i] ELSE 0
      <4>1. m \in File /\ s \in Nat /\ d \in File
        BY <2>3, <2>6
      <4>2. /\ Put(m, s, d) \in File
            /\ Len(Put(m, s, d)) = IF s + Len(d) < Len(m) THEN Len(m) ELSE s + Len(d)
            /\ \A i \in 1 .. Len(Put(m, s, d)) :
                 Put(m, s, d)[i] = IF s < i /\ i <= s + Len(d) THEN d[i - s] ELSE IF i <= Len(m) THEN m[i] ELSE 0
        BY <3>1, <4>1, PutBytes, ZenonT(40), SMTT(30)
      <4> QED  BY <3>2, <4>2, Zenon
    <3>4. Len(w) >= Len(m)
      BY <2>3, <2>6, <2>7, <3>3
    <3>5. ASSUME NEW i \in 1 .. Len(m) PROVE w[i] = IF i - 1 \in Section(job, "bss") THEN 0 ELSE m[i]
      <4>1. i \in 1 .. Len(w) /\ i \in Int
        BY <2>7, <3>3, <3>4
      <4>2. w[i] = IF s < i /\ i <= s + n THEN d[i - s] ELSE m[i]
        BY <2>6, <2>7, <3>3, <4>1
      <4>3. ASSUME s < i, i <= s + n PROVE i - s \in 1 .. n
        <5>1. i - s \in Int /\ i - s >= 1 /\ i - s <= n
          BY <4>1, <4>3
        <5> QED  BY <5>1
      <4>4. ASSUME s < i, i <= s + n PROVE w[i] = 0
        <5>1. PICK k \in 1 .. n : k = i - s
          BY <4>3, <4>4
        <5>2. w[i] = d[k]
          BY <4>2, <4>4, <5>1
        <5> QED  BY <2>6, <5>2
      <4>5. ~(s < i /\ i <= s + n) => w[i] = m[i]
        BY <4>2
      <4> QED  BY <2>8, <4>4, <4>5
    <3> QED  BY <1>1, <1>3, <2>7, <3>2, <3>3, <3>4, <3>5
  <2> QED  BY <2>9, <2>10
<1> QED  BY <1>2, <1>3

(* When the sections are searched, every address of an intact driver is      *)
(* moved, and what is written back is what the driver's maker wanted.        *)
LEMMA DldiRebuilds ==
    ASSUME DldiIInv, job.whole, pc = "bss"
    PROVE  Put(job.rom, quickFind(job), Slice(Cleared, 0, ddmemSize(job))) = job.want
<1>1. job \in Jobs("dldi") /\ loc \in DldiLocals /\ loc.pAH \in File /\ job.rom \in File /\ job.want \in File /\ quickFind(job) >= 0
  BY DldiGiven DEF DldiIInv, DldiType, DldiLocals
<1>2. PICK M \in SUBSET job.ptrs : Header \subseteq M /\ loc.pAH = Image(job, M) /\ DldiGone(job, pc, loc.n, M)
  <2>1. pc \in DOMAIN DldiPast
    BY DEF DldiPast
  <2> QED  BY <2>1 DEF DldiIInv, DldiPlace
<1>3. M = job.ptrs
  <2>1. ASSUME NEW p \in job.ptrs, p \notin Header PROVE p \in M
    <3>1. PICK s \in Searched(job) : p \in Section(job, s)
      BY <1>1, <2>1, DldiMadeIs
    <3>2. s \in DldiPast["bss"]
      BY <1>1, DldiGiven DEF Searched, Bounds, DldiPast
    <3> QED  BY <1>2, <3>1, <3>2 DEF DldiGone
  <2> QED  BY <1>2, <2>1
<1>4. PICK m : m = Image(job, job.ptrs) /\ m = loc.pAH
  BY <1>2, <1>3
<1>5. PICK q \in Nat, z \in Nat : q = quickFind(job) /\ z = ddmemSize(job) /\ z > 0
  BY <1>1, DldiGiven, DldiCopied
<1>6. m \in File /\ Len(m) \in Nat /\ Len(job.rom) \in Nat /\ q + z <= Len(job.rom) /\ Len(m) >= Len(job.rom) - q
  <2>1. DldiPtrs(job) /\ job.ptrs \in SUBSET job.ptrs
    BY <1>1, DldiMadeIs
  <2>2. Len(m) = Len(DriverCopy(job))
    BY <1>1, <1>4, <2>1, ImageIs
  <2> QED  BY <1>1, <1>4, <1>5, <2>2, DldiCopied, DldiWanted
<1>7. PICK c : c = Cleared
  OBVIOUS
<1>8. /\ c \in File /\ Len(c) >= Len(m) /\ Len(c) \in Nat
      /\ \A i \in 1 .. Len(m) : c[i] = IF "bss" \in Fixed(job) /\ i - 1 \in Section(job, "bss") THEN 0 ELSE m[i]
  BY <1>1, <1>4, <1>7, DldiClears DEF File
<1>9. PICK s : s = Slice(c, 0, z)
  OBVIOUS
<1>10. /\ s \in File /\ Len(s) = z /\ s # <<>>
       /\ \A i \in 1 .. z : i \in 1 .. Len(m) /\ s[i] = c[i]
  <2>1. 0 + z <= Len(c) /\ z <= Len(m)
    BY <1>5, <1>6, <1>8
  <2>2. s \in File /\ Len(s) = z
    BY <1>8, <1>9, <2>1, SliceFile
  <2>3. ASSUME NEW i \in 1 .. z PROVE i \in 1 .. Len(m) /\ s[i] = c[i]
    <3>1. s[i] = c[0 + i]
      BY <1>8, <1>9, <2>1, SliceBytes
    <3> QED  BY <1>6, <2>1, <3>1
  <2> QED  BY <1>5, <2>2, <2>3
<1>11. PICK w : w = Put(job.rom, q, s)
  OBVIOUS
<1>12. w \in File /\ Len(w) = Len(job.rom) /\ \A i \in 1 .. Len(w) : w[i] = IF q < i /\ i <= q + z THEN s[i - q] ELSE job.rom[i]
  <2>1. /\ w \in File /\ Len(w) = IF q + Len(s) < Len(job.rom) THEN Len(job.rom) ELSE q + Len(s)
        /\ \A i \in 1 .. Len(w) : w[i] = IF q < i /\ i <= q + Len(s) THEN s[i - q] ELSE IF i <= Len(job.rom) THEN job.rom[i] ELSE 0
    <3>1. job.rom \in File /\ s \in File /\ s # <<>>
      BY <1>1, <1>10
    <3>2. /\ Put(job.rom, q, s) \in File
          /\ Len(Put(job.rom, q, s)) = IF q + Len(s) < Len(job.rom) THEN Len(job.rom) ELSE q + Len(s)
          /\ \A i \in 1 .. Len(Put(job.rom, q, s)) :
               Put(job.rom, q, s)[i] = IF q < i /\ i <= q + Len(s) THEN s[i - q] ELSE IF i <= Len(job.rom) THEN job.rom[i] ELSE 0
      BY <3>1, PutBytes, ZenonT(40), SMTT(30)
    <3> QED  BY <1>11, <3>2, Zenon
  <2>2. Len(w) = Len(job.rom)
    BY <1>5, <1>6, <1>10, <2>1
  <2>3. q + Len(s) = q + z
    BY <1>10
  <2>4. ASSUME NEW i \in 1 .. Len(w) PROVE w[i] = IF q < i /\ i <= q + z THEN s[i - q] ELSE job.rom[i]
    <3>1. i <= Len(job.rom) /\ w[i] = IF q < i /\ i <= q + z THEN s[i - q] ELSE IF i <= Len(job.rom) THEN job.rom[i] ELSE 0
      BY <1>6, <2>1, <2>2, <2>3
    <3> QED  BY <3>1
  <2> QED  BY <2>1, <2>2, <2>4
<1>13. ASSUME NEW i \in 1 .. Len(job.rom) PROVE w[i] = job.want[i]
  <2>1. job.want[i] = IF i - q \notin 1 .. z THEN job.rom[i]
                      ELSE IF "bss" \in Fixed(job) /\ (i - q) - 1 \in Section(job, "bss") THEN 0 ELSE m[i - q]
    BY <1>1, <1>4, <1>5, DldiWanted
  <2>2. w[i] = IF i - q \notin 1 .. z THEN job.rom[i] ELSE s[i - q]
    BY <1>5, <1>6, <1>12
  <2>3. ASSUME NEW k \in 1 .. z, k = i - q PROVE s[k] = IF "bss" \in Fixed(job) /\ k - 1 \in Section(job, "bss") THEN 0 ELSE m[k]
    BY <1>8, <1>10
  <2> QED  BY <2>1, <2>2, <2>3
<1>14. w = job.want
  BY <1>1, <1>12, <1>13, DldiWanted, SameFile
<1> QED  BY <1>5, <1>7, <1>9, <1>11, <1>14

(* The driver is written back, or not wholly.                                *)
LEMMA DldiWrites == ASSUME DldiIInv, WriteBack PROVE DldiIInv'
<1>1. /\ job \in Jobs("dldi") /\ FileTypes /\ loc \in DldiLocals /\ out = job.rom /\ at = quickFind(job) /\ pc = "bss"
      /\ job' = job /\ at' = at /\ ret' = 0 /\ disk' = out' /\ pc' = "done"
  BY DEF DldiIInv, DldiType, WriteBack
<1>2. loc.pAH \in File /\ ddmemSize(job) \in Nat /\ at \in Nat
  BY <1>1, DldiGiven DEF DldiLocals, FileTypes
<1>3. Cleared \in File
  BY <1>1, <1>2, DldiClears
<1>4. ASSUME NEW n \in Nat PROVE Put(out, at, Slice(Cleared, 0, n)) \in File
  <2>1. Slice(Cleared, 0, n) \in File
    BY <1>3, AnySlice
  <2> QED  BY <1>1, <2>1, PutGrows DEF FileTypes
<1>5. CASE out' = Put(out, at, Slice(Cleared, 0, ddmemSize(job))) /\ loc' = loc
  <2>1. out' \in File
    BY <1>2, <1>4, <1>5
  <2>2. DldiType'
    BY <1>1, <1>5, <2>1 DEF DldiType, FileTypes
  <2>3. job.whole => out' = job.want
    BY <1>1, <1>5, DldiRebuilds
  <2> QED  BY <1>1, <2>2, <2>3 DEF DldiIInv, DldiPlace, DldiPast, DldiRelocated
<1>6. CASE (\E n \in 0 .. (ddmemSize(job) - 1) : out' = Put(out, at, Slice(Cleared, 0, n))) /\ loc' = [loc EXCEPT !.io = TRUE]
  <2>1. out' \in File
    BY <1>2, <1>4, <1>6
  <2>2. PICK b \in BOOLEAN : b = TRUE
    OBVIOUS
  <2>3. loc' = [loc EXCEPT !.io = b]
    BY <1>6, <2>2
  <2>4. loc' \in DldiLocals
    BY <1>1, <2>3, DldiSet, Zenon
  <2>5. loc'.io
    BY <1>1, <1>6 DEF DldiLocals
  <2>6. DldiType'
    BY <1>1, <2>1, <2>4 DEF DldiType, FileTypes
  <2> QED  BY <1>1, <2>5, <2>6 DEF DldiIInv, DldiPlace, DldiPast, DldiRelocated
<1> QED  BY <1>5, <1>6 DEF WriteBack

(* What a DLDI call keeps.                                                   *)
LEMMA DldiStep == DldiIInv /\ [DldiNext \/ Done]_vars => DldiIInv'
<1>1. ASSUME DldiIInv, UNCHANGED vars PROVE DldiIInv'
  BY <1>1 DEF DldiIInv, DldiType, FileTypes, DldiPlace, DldiRelocated, vars
<1> QED  BY <1>1, DldiOpens, DldiHeader, DldiSearch, DldiWrites DEF DldiNext, Done

(* It holds when a call starts.                                              *)
LEMMA DldiStarts == DldiInit => DldiIInv
<1> SUFFICES ASSUME DldiInit PROVE DldiIInv
  OBVIOUS
<1>1. job \in Jobs("dldi") /\ out = job.rom /\ disk = job.rom /\ at = 0 /\ pc = "open" /\ ret = 0
      /\ loc = [pAH |-> <<>>, relocationOffset |-> 0, n |-> 0, io |-> FALSE] /\ job.rom \in File
  BY DldiGiven DEF DldiInit
<1>2. <<>> \in File
  BY DEF File
<1>3. loc \in DldiLocals /\ loc.n = 0
  BY <1>1, <1>2 DEF DldiLocals
<1>4. DldiType
  BY <1>1, <1>3 DEF DldiType, FileTypes
<1> QED  BY <1>1, <1>4 DEF DldiIInv, DldiPlace, DldiPast, DldiRelocated

-----------------------------------------------------------------------------
(* What holds of a call of each format.                                      *)
CallIInv == /\ job.fmt \in IpsFormats => IpsIInv
            /\ job.fmt = "dps" => DpsIInv
            /\ job.fmt = "apsgba" => GbaIInv
            /\ job.fmt = "apsn64" => N64IInv
            /\ job.fmt = "xpc" => XpcIInv
            /\ job.fmt = "ecm" => EcmIInv
            /\ job.fmt = "ppf" => PpfIInv
            /\ job.fmt = "bps" => BpsIInv /\ BpsExactIInv
            /\ job.fmt = "bsdiff" => BsIInv /\ BsExactIInv
            /\ job.fmt = "ups" => UpsIInv /\ BothIInv
            /\ job.fmt = "dldi" => DldiIInv

(* It holds when a call starts.                                              *)
LEMMA CallStarts == Init => CallIInv
<1> SUFFICES ASSUME Init PROVE CallIInv
  OBVIOUS
<1>1. ASSUME job.fmt \in IpsFormats PROVE IpsIInv
  <2>1. IpsInit
    BY <1>1, Begins
  <2>2. PICK f \in IpsFormats : job \in Jobs(f)
    BY <2>1 DEF IpsInit
  <2>3. f \in AllFormats
    BY <2>2 DEF IpsFormats, AllFormats
  <2>4. job.fmt = f
    BY <2>2, <2>3, JobFormat
  <2> QED  BY <2>1, <2>2, <2>4 DEF IpsInit, IpsIInv, IpsExact, IpsCutFails
<1>2. ASSUME job.fmt = "dps" PROVE DpsIInv
  BY <1>2, Begins DEF DpsInit, DpsIInv, DpsExact
<1>3. ASSUME job.fmt = "apsn64" PROVE N64IInv
  <2>1. N64Init
    BY <1>3, Begins
  <2>2. PICK b \in Byte : loc = [Force |-> ~job.again, Size |-> <<>>, Buffer |-> Fill(Base - 1, b), n |-> 0]
    BY <2>1 DEF N64Init
  <2>3. Fill(Base - 1, b) \in File /\ Len(Fill(Base - 1, b)) = Base - 1
    BY <2>2, BaseAssumption DEF Fill, File
  <2>4. loc.Force = ~job.again /\ loc.Buffer = Fill(Base - 1, b) /\ loc.n = 0
    BY <2>2
  <2> QED  BY <2>1, <2>3, <2>4 DEF N64Init, N64IInv, N64Exact
<1>4. ASSUME job.fmt = "xpc" PROVE XpcIInv
  <2>1. XpcInit
    BY <1>4, Begins
  <2>2. job.recs \in Seq([page : Nat, address : Nat, data : File])
    BY <2>1, XpcAssumption DEF XpcInit
  <2>3. 0 \in 0 .. Len(job.recs)
    BY <2>2
  <2> QED  BY <2>1, <2>3 DEF XpcInit, XpcIInv
<1>5. ASSUME job.fmt = "apsgba" PROVE GbaIInv
  <2>1. ApsGbaInit
    BY <1>5, Begins
  <2>2. job \in Jobs("apsgba") /\ out = job.rom /\ at = 0 /\ pc = "ApplyPatch"
        /\ loc.bByteArray1 = Fill(lChunkBytes, 0) /\ ~loc.fIsModified
    BY <2>1 DEF ApsGbaInit
  <2>3. lChunkBytes \in Nat /\ 0 \in Byte /\ job.rom \in File /\ 0 \in 0 .. Len(job.chunks)
    BY <2>2, GbaGiven, BaseAssumption DEF Byte
  <2>4. GbaType
    BY <2>2, <2>3 DEF GbaType, Fill
  <2>5. ApsGbaKnownChunks
    BY <2>2 DEF ApsGbaKnownChunks
  <2> QED  BY <2>2, <2>4, <2>5 DEF GbaIInv, ApsGbaLastChunk
<1>6. ASSUME job.fmt = "ecm" PROVE EcmIInv
  BY <1>6, Begins, EcmStarts
<1>7. ASSUME job.fmt = "ppf" PROVE PpfIInv
  BY <1>7, Begins, PpfStarts
<1>8. ASSUME job.fmt = "bps" PROVE BpsIInv /\ BpsExactIInv
  BY <1>8, Begins, BpsStarts, BpsExactStarts
<1>9. ASSUME job.fmt = "bsdiff" PROVE BsIInv /\ BsExactIInv
  BY <1>9, Begins, BsStarts, BsExactStarts
<1>10. ASSUME job.fmt = "ups" PROVE UpsIInv /\ BothIInv
  BY <1>10, Begins, UpsStarts, UpsBothStarts
<1>11. ASSUME job.fmt = "dldi" PROVE DldiIInv
  BY <1>11, Begins, DldiStarts
<1> QED  BY <1>1, <1>2, <1>3, <1>4, <1>5, <1>6, <1>7, <1>8, <1>9, <1>10, <1>11 DEF CallIInv

(* And every step keeps it.                                                  *)
LEMMA CallStep == CallIInv /\ [Next]_vars => CallIInv'
<1> SUFFICES ASSUME CallIInv, [Next]_vars PROVE CallIInv'
  OBVIOUS
<1>1. job' = job
  BY JobKept
<1>2. job.fmt \in IpsFormats => IpsIInv'
  BY Moves, IpsStep DEF CallIInv
<1>3. job.fmt = "dps" => DpsIInv'
  BY Moves, DpsStep DEF CallIInv
<1>4. job.fmt = "apsn64" => N64IInv'
  BY Moves, N64Step DEF CallIInv
<1>5. job.fmt = "xpc" => XpcIInv'
  BY Moves, XpcStep DEF CallIInv
<1>6. job.fmt = "apsgba" => GbaIInv'
  BY Moves, GbaStep DEF CallIInv
<1>7. job.fmt = "ecm" => EcmIInv'
  BY Moves, EcmStep DEF CallIInv
<1>8. job.fmt = "ppf" => PpfIInv'
  BY Moves, PpfStep DEF CallIInv
<1>9. job.fmt = "bps" => BpsIInv' /\ BpsExactIInv'
  BY Moves, BpsStep, BpsExactStep DEF CallIInv
<1>10. job.fmt = "bsdiff" => BsIInv' /\ BsExactIInv'
  BY Moves, BsStep, BsExactStep DEF CallIInv
<1>11. job.fmt = "ups" => UpsIInv' /\ BothIInv'
  BY Moves, UpsStep, UpsBothStep DEF CallIInv
<1>12. job.fmt = "dldi" => DldiIInv'
  BY Moves, DldiStep DEF CallIInv
<1> QED  BY <1>1, <1>2, <1>3, <1>4, <1>5, <1>6, <1>7, <1>8, <1>9, <1>10, <1>11, <1>12 DEF CallIInv

(* Throughout a call.                                                        *)
LEMMA CallAlways == Spec => []CallIInv
  BY CallStarts, CallStep, PTL DEF Spec

(* An intact IPS or IPS32 patch that opens is applied to the last record and *)
(* reported as applied, however many records of whatever size, literal or    *)
(* run-length, overlapping or behind the end of the ROM, it has.             *)
THEOREM IpsAlwaysExact == Spec => []IpsExact
<1>1. CallIInv => IpsExact
  BY DEF CallIInv, IpsIInv, IpsExact
<1> QED  BY <1>1, CallAlways, PTL

(* An IPS patch cut at any byte is never reported as applied.                *)
THEOREM IpsCutAlwaysFails == Spec => []IpsCutFails
<1>1. CallIInv => IpsCutFails
  BY DEF CallIInv, IpsIInv, IpsCutFails
<1> QED  BY <1>1, CallAlways, PTL

(* An intact DPS patch for a ROM of this size leaves the file it describes   *)
(* on the disk although nobody closes it.                                    *)
THEOREM DpsAlwaysExact == Spec => []DpsExact
<1>1. CallIInv => DpsExact
  BY DEF CallIInv, DpsIInv, DpsExact
<1> QED  BY <1>1, CallAlways, PTL

(* Without "ignore checksums" every chunk an APS (GBA) patch is about is at  *)
(* any time what it was, or the original's, or the modified file's.          *)
THEOREM ApsGbaAlwaysKnown == Spec => []ApsGbaKnownChunks
<1>1. CallIInv => ApsGbaKnownChunks
  BY DEF CallIInv, GbaIInv, ApsGbaKnownChunks
<1> QED  BY <1>1, CallAlways, PTL

(* An intact APS (GBA) patch on the file it was made for patches all chunks  *)
(* but the last, which it refuses unless it is all zeros in one file.        *)
THEOREM ApsGbaAlwaysLast == Spec => []ApsGbaLastChunk
<1>1. CallIInv => ApsGbaLastChunk
  BY DEF CallIInv, GbaIInv, ApsGbaLastChunk
<1> QED  BY <1>1, CallAlways, PTL

(* An intact APS (N64) patch resizes the ROM and lays its records over it.   *)
THEOREM N64AlwaysExact == Spec => []N64Exact
<1>1. CallIInv => N64Exact
  BY DEF CallIInv, N64IInv, N64Exact
<1> QED  BY <1>1, CallAlways, PTL

(* An intact PPF patch of any version, for a ROM of any size and with any    *)
(* records, undo data and file_id.diz, has laid its records over the ROM and *)
(* counted its bytes down to zero when the loop of its own version ends.     *)
THEOREM PpfAlwaysOwnPass == Spec => []PpfOwnPass
<1>1. CallIInv => PpfOwnPass
  BY DEF CallIInv, PpfIInv, PpfOwnPass
<1> QED  BY <1>1, CallAlways, PTL

(* An intact ECM file gives the image it was made from, however many         *)
(* literals and sectors of the three types follow each other in the one      *)
(* buffer, and is reported as the calls before it were; and a success leaves *)
(* the image the checksum belongs to.                                        *)
THEOREM EcmAlwaysExact == Spec => []EcmExact
<1>1. CallIInv => EcmExact
  BY DEF CallIInv, EcmIInv, EcmExact
<1> QED  BY <1>1, CallAlways, PTL

(* UPS::apply without "ignore checksums": a reported success means that the  *)
(* ROM was one of the two files of the patch and is now the other, for every *)
(* patch file.                                                               *)
THEOREM UpsSuccessMatches == Spec => []SuccessMatches
<1>1. CallIInv => SuccessMatches
  BY DEF CallIInv, UpsIInv, SuccessMatches
<1> QED  BY <1>1, CallAlways, PTL

(* Once it is laid out, the output of UPS::apply keeps its size, whatever    *)
(* the patch file holds and however its offsets run on: no block writes past *)
(* the end.                                                                  *)
THEOREM UpsSizeAlwaysKept == Spec => []SizeKept
<1>1. CallIInv => SizeKept
  BY DEF CallIInv, BothIInv, SizeKept
<1> QED  BY <1>1, CallAlways, PTL

(* A UPS patch made of two files turns each into the other, whatever their   *)
(* sizes and the bytes of the CRCs at its end, which blocks that are read    *)
(* out of place may run into.                                                *)
THEOREM UpsAlwaysBothWays == Spec => []BothWays
<1>1. CallIInv => BothWays
  BY DEF CallIInv, BothIInv, BothWays
<1> QED  BY <1>1, CallAlways, PTL

(* bpspatch without "ignore checksums", once it has mapped the patch and the *)
(* output: a reported success means that the file on the disk is the one the *)
(* patch was made for, for every list of commands, those that read or write  *)
(* behind the end of a file included, and whether or not it could open the   *)
(* ROM.                                                                      *)
THEOREM BpsSuccessIsTarget == Spec => []BpsChecked
<1>1. CallIInv => BpsChecked
  BY DEF CallIInv, BpsIInv, BpsChecked
<1> QED  BY <1>1, CallAlways, PTL

(* bpspatch gives the target for every intact patch and every ROM that       *)
(* starts with its source, whatever mixture of the four commands it is and   *)
(* however far a copy from the output overlaps what it writes; no access     *)
(* leaves its file.                                                          *)
THEOREM BpsAlwaysExact == Spec => []BpsExact
<1>1. CallIInv => BpsExact
  BY DEF CallIInv, BpsExactIInv, BpsExact
<1> QED  BY <1>1, CallAlways, PTL

(* bspatch never writes past the buffer it allocated for the new file, for   *)
(* every list of control triples, negative lengths included, and what it     *)
(* reports as patched has the size the patch names.                          *)
THEOREM BsAlwaysFits == Spec => []BsFits
<1>1. CallIInv => BsFits
  BY DEF CallIInv, BsIInv, BsFits
<1> QED  BY <1>1, CallAlways, PTL

(* bspatch gives the new file for every intact patch, whatever its triples,  *)
(* those that step out of the old file included, unless a file operation     *)
(* fails.                                                                    *)
THEOREM BsAlwaysExact == Spec => []BsExact
<1>1. CallIInv => BsExact
  BY DEF CallIInv, BsExactIInv, BsExact
<1> QED  BY <1>1, CallAlways, PTL

-----------------------------------------------------------------------------
(* The locals that hold what is written to a file.                           *)
IpsLocals == [offset : Nat, size : Nat, rle : BOOLEAN, rleData : Byte, n : Nat]
N64Sizes == {s \in File : Len(s) = 1}
N64Locals == [Force : BOOLEAN, Size : N64Sizes \cup {<<>>}, Buffer : PpfMem, n : Nat]
EcmBuffers == {s \in File : Len(s) = SectorLen}
EcmLocals == [sector : EcmBuffers, num : Nat, pos : Nat, myError : Int, io : BOOLEAN]

(* Each step of IPSPatch keeps the types.                                    *)
LEMMA IpsTypes ==
    ASSUME job.fmt \in IpsFormats, job \in Jobs(job.fmt), FileTypes, loc \in IpsLocals, IpsNext
    PROVE  FileTypes' /\ loc' \in IpsLocals
<1>1. /\ job.patch \in File /\ OffLen(job.fmt) \in Nat /\ SizeLen \in Nat /\ 1 \in Nat /\ at \in Nat
      /\ at + OffLen(job.fmt) \in Nat /\ at + OffLen(job.fmt) + SizeLen \in Nat
      /\ at + OffLen(job.fmt) + SizeLen + SizeLen \in Nat
  <2>1. job.fmt \in AllFormats
    BY DEF IpsFormats, AllFormats
  <2>2. job.patch \in File
    BY <2>1, JobFormat
  <2>3. OffLen(job.fmt) \in Nat /\ SizeLen \in Nat /\ at \in Nat
    BY IpsAssumption DEF FileTypes
  <2> QED  BY <2>2, <2>3
<1>2. CASE IPSOpen
  <2>1. (ret' \in {-3, ret}) /\ disk' \in {disk, out} /\ UNCHANGED <<out, at, loc>>
    BY <1>2 DEF IPSOpen, Close
  <2> QED  BY <2>1 DEF FileTypes
<1>3. CASE IPSReadRecord
  <2>1. PICK o, s, r, d : /\ o = Slice(job.patch, at, OffLen(job.fmt))
                          /\ s = Slice(job.patch, at + OffLen(job.fmt), SizeLen)
                          /\ r = Slice(job.patch, at + OffLen(job.fmt) + SizeLen, SizeLen)
                          /\ d = Slice(job.patch, at + OffLen(job.fmt) + SizeLen + SizeLen, 1)
    OBVIOUS
  <2>2. o \in File /\ s \in File /\ r \in File /\ d \in File
    BY <1>1, <2>1, AnySlice
  <2>3. BE(o) \in Nat /\ BE(s) \in Nat /\ BE(r) \in Nat
    BY <2>2, FieldIs
  <2>4. d # <<>> => d[1] \in Byte
    BY <2>2, FileBytes DEF File
  <2>5. PICK x, y, z, w : x = BE(o) /\ y = BE(s) /\ z = BE(r) /\ w = d[1]
    OBVIOUS
  <2>6. \/ \E c \in {0, -5} : Close(c) /\ UNCHANGED <<out, at, loc>>
        \/ /\ loc' = [loc EXCEPT !.offset = x, !.size = y, !.rle = FALSE]
           /\ at' = at + OffLen(job.fmt) + SizeLen /\ UNCHANGED <<out, ret, disk>>
        \/ /\ d # <<>> /\ loc' = [loc EXCEPT !.offset = x, !.size = z, !.rle = TRUE, !.rleData = w]
           /\ at' = at + OffLen(job.fmt) + SizeLen + SizeLen + 1 /\ UNCHANGED <<out, ret, disk>>
    <3>1. \/ Close(0) /\ UNCHANGED <<out, at, loc>>
          \/ Close(-5) /\ UNCHANGED <<out, at, loc>>
          \/ /\ loc' = [loc EXCEPT !.offset = BE(o), !.size = BE(s), !.rle = FALSE]
             /\ at' = at + OffLen(job.fmt) + SizeLen /\ UNCHANGED <<out, ret, disk>>
          \/ /\ d # <<>> /\ loc' = [loc EXCEPT !.offset = BE(o), !.size = BE(r), !.rle = TRUE, !.rleData = d[1]]
             /\ at' = at + OffLen(job.fmt) + SizeLen + SizeLen + 1 /\ UNCHANGED <<out, ret, disk>>
      BY <1>3, <2>1, ZenonT(40), SMTT(30) DEF IPSReadRecord
    <3> QED  BY <2>5, <3>1
  <2>7. loc' \in IpsLocals
    <3>1. x \in Nat /\ y \in Nat /\ z \in Nat /\ (d # <<>> => w \in Byte)
      BY <2>3, <2>4, <2>5
    <3> QED  BY <2>6, <3>1 DEF IpsLocals
  <2>8. out' = out /\ disk' \in {disk, out} /\ ret' \in {ret, 0, -5}
    BY <2>6 DEF Close
  <2>9. at' \in Nat
    BY <1>1, <2>6
  <2> QED  BY <2>7, <2>8, <2>9 DEF FileTypes
<1>4. CASE IPSProcessRecord
  <2>1. loc.offset \in Nat /\ loc.size \in Nat /\ loc.rleData \in Byte
    BY DEF IpsLocals
  <2>2. PICK got : got = Slice(job.patch, at, loc.size)
    OBVIOUS
  <2>3. got \in File /\ Len(got) \in Nat
    BY <1>1, <2>1, <2>2, AnySlice
  <2>4. ASSUME NEW junk \in Byte PROVE IpsData(got, junk) \in File
    <3>1. ASSUME NEW k \in 1 .. Len(got) PROVE got[k] \in Byte
      BY <2>3, <3>1, FileBytes
    <3>2. got # <<>> => Len(got) \in 1 .. Len(got)
      BY <2>3 DEF File
    <3>3. \A k \in 1 .. loc.size : (IF k <= Len(got) THEN got[k] ELSE IF got # <<>> THEN got[Len(got)] ELSE junk) \in Byte
      BY <2>1, <2>3, <2>4, <3>1, <3>2
    <3> QED  BY <2>1, <3>3 DEF IpsData, File
  <2>5. out' \in File
    <3>1. Fill(loc.size, loc.rleData) \in File
      BY <2>1, FillBytes
    <3>2. out \in File
      BY DEF FileTypes
    <3> QED  BY <1>4, <2>1, <2>2, <2>4, <3>1, <3>2, PutGrows DEF IPSProcessRecord
  <2>6. at' \in Nat /\ disk' = disk /\ ret' = ret /\ loc' = [loc EXCEPT !.n = @ + 1]
    BY <1>1, <1>4, <2>2, <2>3 DEF IPSProcessRecord
  <2> QED  BY <2>5, <2>6 DEF FileTypes, IpsLocals
<1> QED  BY <1>2, <1>3, <1>4 DEF IpsNext

(* So does each step of dpspatch.                                            *)
LEMMA DpsTypes == ASSUME job \in Jobs("dps"), FileTypes, DpsNext PROVE FileTypes'
<1>1. /\ job.patch \in File /\ job.rom \in File /\ FieldLen \in Nat /\ at \in Nat /\ MaxJunk \in Nat /\ Len(job.patch) \in Nat
      /\ Base - 1 \in Byte /\ out \in File
  BY DpsAssumption, BaseAssumption, JobFormat DEF AllFormats, FileTypes, Byte, File
<1>2. CASE dpspatch
  BY <1>2, CloseTypes DEF dpspatch, FileTypes, Crash
<1>3. CASE DpsRecord
  <2>1. ASSUME NEW k \in Nat, NEW x \in Field(k) PROVE x \in Nat
    <3>1. PICK s : s = Slice(job.patch, k, FieldLen)
      OBVIOUS
    <3>2. LE(s) \in Nat
      BY <1>1, <3>1, AnySlice, FieldIs
    <3> QED  BY <1>1, <2>1, <3>1, <3>2 DEF Field
  <2>2. ASSUME NEW f \in File, NEW k \in Nat, NEW n \in Nat PROVE Copied(f, k, n) \in File
    <3>1. ASSUME NEW i \in 1 .. n, k + i <= Len(f) PROVE f[k + i] \in Byte
      <4>1. k + i \in 1 .. Len(f)
        BY <3>1 DEF File
      <4> QED  BY <4>1, FileBytes
    <3>2. \A i \in 1 .. n : (IF k + i <= Len(f) THEN f[k + i] ELSE Base - 1) \in Byte
      BY <1>1, <3>1
    <3> QED  BY <3>2 DEF Copied, File
  <2>3. ASSUME NEW k \in Nat PROVE Stop(k) \in Nat
    BY <1>1 DEF Stop
  <2>4. PICK offset \in Field(at + 1), x \in Field(at + 1 + FieldLen), y \in Field(at + 1 + FieldLen + FieldLen) :
             \/ /\ out' = Put(out, offset, Copied(job.patch, at + 1 + FieldLen + FieldLen, x))
                /\ at' = Stop(at + 1 + FieldLen + FieldLen + x)
             \/ /\ out' = Put(out, offset, Copied(job.rom, x, y))
                /\ at' = Stop(at + 1 + FieldLen + 2 * FieldLen)
             \/ out' = out /\ at' = Stop(at + 1 + FieldLen)
    BY <1>3 DEF DpsRecord
  <2>5. /\ at + 1 \in Nat /\ at + 1 + FieldLen \in Nat /\ at + 1 + FieldLen + FieldLen \in Nat
        /\ at + 1 + FieldLen + 2 * FieldLen \in Nat
    BY <1>1
  <2>6. offset \in Nat /\ x \in Nat /\ y \in Nat
    BY <2>1, <2>4, <2>5
  <2>7. out' \in File
    BY <1>1, <2>2, <2>4, <2>5, <2>6, PutGrows
  <2>8. at' \in Nat
    <3>1. at + 1 + FieldLen + FieldLen + x \in Nat
      BY <2>5, <2>6
    <3> QED  BY <2>3, <2>4, <2>5, <3>1
  <2>9. disk' = out /\ ret' = ret
    BY <1>3 DEF DpsRecord
  <2> QED  BY <2>7, <2>8, <2>9 DEF FileTypes
<1>4. CASE DpsFinish
  BY <1>4, CloseTypes DEF DpsFinish, FileTypes
<1> QED  BY <1>2, <1>3, <1>4 DEF DpsNext

(* Each step of xpcapply.                                                    *)
LEMMA XpcTypes == ASSUME XpcIInv, FileTypes, XpcNext PROVE FileTypes'
<1>1. /\ job \in Jobs("xpc") /\ job.rom \in File /\ Len(job.rom) \in Nat /\ at \in 0 .. Len(job.recs) /\ at \in Nat /\ out \in File
  BY JobFormat DEF AllFormats, XpcIInv, FileTypes, File
<1>2. CASE XpcCopy
  <2>1. ASSUME NEW n \in 0 .. Len(job.rom) PROVE Slice(job.rom, 0, n) \in File
    BY <1>1, AnySlice
  <2> QED  BY <1>1, <1>2, <2>1 DEF XpcCopy, FileTypes, Crash
<1>3. CASE readxpc
  BY <1>3, CloseTypes DEF readxpc, FileTypes, Crash
<1>4. CASE XpcPatch
  <2>1. CASE at < Len(job.recs)
    <3>1. PICK p : p = job.recs[at + 1]
      OBVIOUS
    <3>2. p.data \in File /\ Len(p.data) \in Nat /\ Place(p) \in Nat
      BY <1>1, <2>1, <3>1, XpcPlace
    <3>3. ASSUME NEW k \in 0 .. Len(p.data) PROVE Slice(p.data, 0, k) \in File
      BY <3>2, AnySlice
    <3>4. out' \in File
      BY <1>1, <1>4, <2>1, <3>1, <3>2, <3>3, PutGrows DEF XpcPatch
    <3> QED  BY <1>1, <1>4, <2>1, <3>4 DEF XpcPatch, FileTypes, Crash, Close
  <2>2. CASE at = Len(job.recs)
    BY <1>1, <1>4, <2>2, CloseTypes DEF XpcPatch
  <2> QED  BY <1>4, <2>1, <2>2 DEF XpcPatch
<1> QED  BY <1>2, <1>3, <1>4 DEF XpcNext

(* Each step of bpspatch and of bspatch.                                     *)
LEMMA BpsTypes == ASSUME BpsType, BpsType', FileTypes, BpsNext PROVE FileTypes'
<1>1. out' \in File /\ at' \in Nat
  <2>1. job' \in Jobs("bps") /\ out' \in File /\ at' \in 0 .. Len(job'.cmds)
    BY DEF BpsType
  <2> QED  BY <2>1
<1>2. disk' \in {disk, out, out'} /\ ret' \in Int
  <2>1. ret \in Int
    BY DEF FileTypes
  <2>2. CASE Command \/ Apply \/ Checksum
    BY <2>1, <2>2 DEF Command, Apply, Checksum, Close, Crash
  <2>3. CASE Modify
    BY <2>1, <2>3 DEF Modify, Unopened, Crash
  <2>4. CASE BpsByte
    <3>1. (disk' = disk \/ disk' = out) /\ (ret' = ret \/ ret' = Crash)
      BY <2>4, ZenonT(30) DEF BpsByte, Close
    <3> QED  BY <2>1, <3>1 DEF Crash
  <2> QED  BY <2>2, <2>3, <2>4 DEF BpsNext
<1> QED  BY <1>1, <1>2 DEF FileTypes

(* Each step of bspatch.                                                     *)
LEMMA BsTypes == ASSUME BsType, FileTypes, BsNext PROVE FileTypes'
<1>1. CASE bspatch_header
  <2>1. ret' \in {1, 2, Crash, ret} /\ disk' \in {disk, out} /\ UNCHANGED <<out, at>>
    BY <1>1 DEF bspatch_header, Close
  <2> QED  BY <2>1 DEF FileTypes, Crash
<1>2. CASE Control
  <2>1. (ret' = 2 \/ ret' = ret) /\ (disk' = disk \/ disk' = out) /\ out' = out /\ (at' = at \/ at' = at + 1)
    BY <1>2 DEF Control, Close
  <2> QED  BY <2>1 DEF FileTypes
<1>3. CASE WriteNew
  <2>1. loc.new \in File /\ job.newsize \in Int
    BY BsJob DEF BsType
  <2>2. ASSUME NEW n \in 0 .. job.newsize PROVE Slice(loc.new, 0, n) \in File
    BY <2>1, AnySlice
  <2> QED  BY <1>3, <2>1, <2>2 DEF WriteNew, FileTypes
<1> QED  BY <1>1, <1>2, <1>3 DEF BsNext

(* Each step of APSGBAPatcher.                                               *)
LEMMA GbaTypes == ASSUME GbaType, GbaType', FileTypes, ApsGbaNext PROVE FileTypes'
<1>1. out' \in File /\ at' \in Nat
  <2>1. out' \in File /\ at' \in 0 .. Len(job'.chunks)
    BY DEF GbaType
  <2> QED  BY <2>1
<1>2. disk' \in {disk, out, out'} /\ ret' \in Int
  BY DEF ApsGbaNext, ApplyPatch, ApplyChunk, TruncateFile, Close, Crash, FileTypes
<1> QED  BY <1>1, <1>2 DEF FileTypes

(* Locals that are set keep their types.                                     *)
LEMMA N64Set == \A l \in N64Locals, s \in N64Sizes, m \in Nat :
                  /\ [l EXCEPT !.Size = s, !.n = m] \in N64Locals
                  /\ \A b \in PpfMem : [l EXCEPT !.Size = s, !.Buffer = b, !.n = m] \in N64Locals
<1>1. ASSUME NEW l \in N64Locals, NEW s \in N64Sizes, NEW m \in Nat PROVE [l EXCEPT !.Size = s, !.n = m] \in N64Locals
  BY <1>1 DEF N64Locals
<1>2. ASSUME NEW l \in N64Locals, NEW s \in N64Sizes, NEW m \in Nat, NEW b \in PpfMem
      PROVE  [l EXCEPT !.Size = s, !.Buffer = b, !.n = m] \in N64Locals
  BY <1>2 DEF N64Locals
<1> QED  BY <1>1, <1>2, Zenon

(* Each step of n64aps.                                                      *)
LEMMA N64Types ==
    ASSUME job \in Jobs("apsn64"), FileTypes, loc \in N64Locals, N64Next
    PROVE  FileTypes' /\ loc' \in N64Locals
<1>1. /\ job.patch \in File /\ LongLen \in Nat /\ at \in Nat /\ out \in File /\ at + LongLen \in Nat
      /\ at + LongLen + 1 \in Nat /\ at + LongLen + 1 + 1 \in Nat /\ 1 \in Nat /\ 0 \in Nat /\ 3 \in Nat
  BY N64Assumption, JobFormat DEF AllFormats, FileTypes
<1>2. loc.Size \in N64Sizes \cup {<<>>} /\ loc.Buffer \in File /\ Len(loc.Buffer) = Base - 1 /\ loc.n \in Nat /\ loc.Force \in BOOLEAN
  BY DEF N64Locals, PpfMem
<1>3. CASE ReadHeaders
  <2>1. ret' \in {1, Crash, ret} /\ disk' \in {disk, out} /\ UNCHANGED <<out, at, loc>>
    BY <1>3 DEF ReadHeaders, Close
  <2> QED  BY <2>1 DEF FileTypes, Crash
<1>4. CASE ReadSizeHeader
  <2>1. PICK got : got = Slice(job.patch, 0, LongLen)
    OBVIOUS
  <2>2. got \in File /\ Len(got) \in Nat
    BY <1>1, <2>1, AnySlice
  <2>3. PICK s \in Into(<<>>, got, LongLen) : out' = Sized(LE(s))
    BY <1>4, <2>1 DEF ReadSizeHeader
  <2>4. s \in File
    BY <1>1, <2>2, <2>3, IntoFile
  <2>5. PICK n \in Nat : n = LE(s)
    BY <2>4, FieldIs
  <2>6. \A i \in 1 .. n : (IF i <= Len(out) THEN out[i] ELSE 0) \in Byte
    <3> SUFFICES ASSUME NEW i \in 1 .. n PROVE (IF i <= Len(out) THEN out[i] ELSE 0) \in Byte
      OBVIOUS
    <3>1. i <= Len(out) => i \in 1 .. Len(out)
      BY <1>1 DEF File
    <3> QED  BY <1>1, <3>1, FileBytes, BaseAssumption, SMTT(30), ZenonT(30) DEF Byte
  <2>7. out' \in File
    BY <2>3, <2>5, <2>6 DEF Sized, File
  <2>8. at' \in Nat /\ UNCHANGED <<disk, loc, ret>>
    BY <1>4, <2>1, <2>2 DEF ReadSizeHeader
  <2> QED  BY <2>7, <2>8 DEF FileTypes
<1>5. CASE ReadPatch
  <2>1. PICK o : o = Slice(job.patch, at, LongLen)
    OBVIOUS
  <2>2. LE(o) \in Nat
    BY <1>1, <2>1, AnySlice, FieldIs
  <2>3. CASE Close(0) /\ UNCHANGED <<out, at, loc>>
    BY <2>3 DEF FileTypes, Close
  <2>4. ASSUME NEW k \in Nat, NEW old, old \in N64Sizes \cup {<<>>}, NEW x \in Into(old, Slice(job.patch, k, 1), 1)
        PROVE  x \in N64Sizes /\ x[1] \in Byte
    <3>1. Slice(job.patch, k, 1) \in File
      BY <1>1, <2>4, AnySlice
    <3>2. old = <<>> \/ (old \in File /\ Len(old) = 1)
      BY <2>4 DEF N64Sizes
    <3>3. x \in File /\ Len(x) = 1
      BY <1>1, <2>4, <3>1, <3>2, IntoFile
    <3>4. 1 \in 1 .. Len(x)
      BY <3>3
    <3> QED  BY <3>3, <3>4, FileBytes DEF N64Sizes
  <2>5. ASSUME NEW k \in Nat, NEW n \in Nat PROVE Len(Slice(job.patch, k, n)) \in Nat
    BY <1>1, <2>5, AnySlice
  <2>6. CASE /\ UNCHANGED <<disk, ret>>
             /\ \E size \in Into(loc.Size, Slice(job.patch, at + LongLen, 1), 1) :
                  LET got == Slice(job.patch, at + LongLen + 1, size[1])
                      buffer == Put(loc.Buffer, 0, got)
                  IN /\ out' = Put(out, LE(o), SubSeq(buffer, 1, size[1]))
                     /\ loc' = [loc EXCEPT !.Size = size, !.Buffer = buffer, !.n = @ + 1]
                     /\ at' = at + LongLen + Len(Slice(job.patch, at + LongLen, 1)) + Len(got)
    <3>1. PICK size \in Into(loc.Size, Slice(job.patch, at + LongLen, 1), 1) :
                 /\ out' = Put(out, LE(o), SubSeq(Put(loc.Buffer, 0, Slice(job.patch, at + LongLen + 1, size[1])), 1, size[1]))
                 /\ loc' = [loc EXCEPT !.Size = size, !.Buffer = Put(loc.Buffer, 0, Slice(job.patch, at + LongLen + 1, size[1])), !.n = @ + 1]
                 /\ at' = at + LongLen + Len(Slice(job.patch, at + LongLen, 1)) + Len(Slice(job.patch, at + LongLen + 1, size[1]))
      BY <2>6
    <3>2. size \in N64Sizes /\ size[1] \in Byte
      BY <1>1, <1>2, <2>4, <3>1
    <3>3. PICK n : n = size[1]
      OBVIOUS
    <3>4. n \in Byte /\ n \in Nat
      BY <3>2, <3>3 DEF Byte
    <3>5. PICK got : got = Slice(job.patch, at + LongLen + 1, n)
      OBVIOUS
    <3>6. got \in File /\ Len(got) \in Nat /\ Len(got) <= n
      BY <1>1, <3>4, <3>5, AnySlice
    <3>7. PICK buffer : buffer = Put(loc.Buffer, 0, got)
      OBVIOUS
    <3>8. buffer \in File /\ Len(buffer) = Base - 1 /\ SubSeq(buffer, 1, n) \in File
      BY <1>2, <3>4, <3>6, <3>7, BufferRead
    <3>9. out' \in File
      <4>1. out' = Put(out, LE(o), SubSeq(buffer, 1, n))
        BY <3>1, <3>3, <3>5, <3>7
      <4> QED  BY <1>1, <2>2, <3>8, <4>1, PutGrows
    <3>10. loc' \in N64Locals
      <4>1. loc' = [loc EXCEPT !.Size = size, !.Buffer = buffer, !.n = @ + 1]
        BY <3>1, <3>3, <3>5, <3>7
      <4>2. buffer \in PpfMem
        BY <3>8 DEF PpfMem
      <4>3. PICK m \in Nat : m = loc.n + 1
        BY <1>2
      <4> QED  BY <3>2, <4>1, <4>2, <4>3, N64Set
    <3>11. at' \in Nat
      <4>1. PICK a \in Nat : a = Len(Slice(job.patch, at + LongLen, 1))
        BY <1>1, <2>5
      <4>2. PICK b \in Nat : b = Len(got)
        BY <3>6
      <4>3. at' = at + LongLen + a + b
        BY <3>1, <3>3, <3>5, <4>1, <4>2
      <4> QED  BY <1>1, <4>1, <4>2, <4>3
    <3> QED  BY <2>6, <3>9, <3>10, <3>11 DEF FileTypes
  <2>7. CASE /\ UNCHANGED <<disk, ret>>
             /\ \E size \in Into(loc.Size, Slice(job.patch, at + LongLen, 1), 1),
                   data \in Into(<<>>, Slice(job.patch, at + LongLen + 1, 1), 1),
                   len \in Into(<<>>, Slice(job.patch, at + LongLen + 1 + 1, 1), 1) :
                  /\ out' = Put(out, LE(o), Fill(len[1], data[1]))
                  /\ loc' = [loc EXCEPT !.Size = size, !.n = @ + 1]
                  /\ at' = at + LongLen + Len(Slice(job.patch, at + LongLen, 3))
    <3>1. PICK size \in Into(loc.Size, Slice(job.patch, at + LongLen, 1), 1),
               data \in Into(<<>>, Slice(job.patch, at + LongLen + 1, 1), 1),
               len \in Into(<<>>, Slice(job.patch, at + LongLen + 1 + 1, 1), 1) :
                  /\ out' = Put(out, LE(o), Fill(len[1], data[1]))
                  /\ loc' = [loc EXCEPT !.Size = size, !.n = @ + 1]
                  /\ at' = at + LongLen + Len(Slice(job.patch, at + LongLen, 3))
      BY <2>7
    <3>2. size \in N64Sizes /\ data[1] \in Byte /\ len[1] \in Nat
      <4>1. size \in N64Sizes
        BY <1>1, <1>2, <2>4, <3>1
      <4>2. data[1] \in Byte
        BY <1>1, <2>4, <3>1
      <4>3. len[1] \in Byte
        BY <1>1, <2>4, <3>1
      <4> QED  BY <4>1, <4>2, <4>3 DEF Byte
    <3>3. out' \in File
      <4>1. Fill(len[1], data[1]) \in File
        BY <3>2, FillBytes
      <4> QED  BY <1>1, <2>2, <3>1, <4>1, PutGrows
    <3>4. loc' \in N64Locals
      <4>1. PICK m \in Nat : m = loc.n + 1
        BY <1>2
      <4> QED  BY <3>1, <3>2, <4>1, N64Set
    <3>5. at' \in Nat
      <4>1. PICK a \in Nat : a = Len(Slice(job.patch, at + LongLen, 3))
        BY <1>1, <2>5
      <4> QED  BY <1>1, <3>1, <4>1, SMTT(30), ZenonT(30)
    <3> QED  BY <2>7, <3>3, <3>4, <3>5 DEF FileTypes
  <2> QED  BY <1>5, <2>1, <2>3, <2>6, <2>7, ZenonT(40), SMTT(30) DEF ReadPatch
<1> QED  BY <1>3, <1>4, <1>5 DEF N64Next

(* Locals that are set keep their types.                                     *)
LEMMA EcmSet == \A l \in EcmLocals :
                  /\ \A a, b \in Nat : /\ [l EXCEPT !.num = a, !.pos = b] \in EcmLocals
                                       /\ \A s \in EcmBuffers : [l EXCEPT !.num = a, !.pos = b, !.sector = s] \in EcmLocals
                  /\ \A e \in Int, io \in BOOLEAN : [l EXCEPT !.myError = e, !.io = io] \in EcmLocals
<1>1. ASSUME NEW l \in EcmLocals, NEW a \in Nat, NEW b \in Nat PROVE [l EXCEPT !.num = a, !.pos = b] \in EcmLocals
  BY <1>1 DEF EcmLocals
<1>2. ASSUME NEW l \in EcmLocals, NEW a \in Nat, NEW b \in Nat, NEW s \in EcmBuffers
      PROVE  [l EXCEPT !.num = a, !.pos = b, !.sector = s] \in EcmLocals
  BY <1>2 DEF EcmLocals
<1>3. ASSUME NEW l \in EcmLocals, NEW e \in Int, NEW io \in BOOLEAN PROVE [l EXCEPT !.myError = e, !.io = io] \in EcmLocals
  BY <1>3 DEF EcmLocals
<1> QED  BY <1>1, <1>2, <1>3, Zenon

(* Each step of unecm.                                                       *)
EcmType == /\ loc \in EcmLocals /\ at \in 0 .. Len(job.segs)
           /\ pc \in {"literal", "sector"} => at > 0
           /\ pc = "sector" => job.segs[at].type # 0
LEMMA EcmTypes ==
    ASSUME job \in Jobs("ecm"), FileTypes, EcmType, EcmNext, job' = job
    PROVE  FileTypes' /\ EcmType'
<1>1. /\ job.segs \in Seq(EcmSegments) /\ Len(job.segs) \in Nat /\ out \in File /\ at \in 0 .. Len(job.segs)
      /\ loc.sector \in File /\ Len(loc.sector) = SectorLen /\ loc.num \in Nat /\ loc.pos \in Nat /\ loc \in EcmLocals
  BY EcmAssumption DEF FileTypes, EcmType, EcmLocals, EcmBuffers
<1>2. ASSUME NEW k \in 1 .. Len(job.segs)
      PROVE  job.segs[k].type \in 0 .. 3 /\ job.segs[k].data \in File
  <2>1. job.segs[k] \in EcmSegments
    BY <1>1, <1>2
  <2> QED  BY <2>1 DEF EcmSegments
<1>3. ASSUME NEW io \in BOOLEAN, EcmError(io), UNCHANGED <<out, at>> PROVE FileTypes' /\ EcmType'
  <2>1. loc' \in EcmLocals
    <3>1. PICK e \in Int : e = 5
      OBVIOUS
    <3>2. loc' = [loc EXCEPT !.myError = e, !.io = io]
      BY <1>3, <3>1 DEF EcmError
    <3> QED  BY <1>1, <3>2, EcmSet
  <2>2. pc' = "done" /\ ret' = 5 /\ disk' = out
    BY <1>3 DEF EcmError, Close
  <2> QED  BY <1>1, <1>3, <2>1, <2>2 DEF FileTypes, EcmType
<1>4. ASSUME NEW s \in File, NEW l \in EcmLocals, EcmWrite(s, l), at' = at, pc \in {"literal", "sector"} PROVE FileTypes' /\ EcmType'
  <2>1. ASSUME NEW n \in 0 .. Len(s) PROVE out \o Slice(s, 0, n) \in File
    <3>1. n \in Nat
      BY <1>4, <2>1 DEF File
    <3> QED  BY <1>1, <1>4, <3>1, AnySlice, ConcatFile
  <2>2. out \o s \in File
    BY <1>1, <1>4, ConcatFile
  <2>3. CASE out' = out \o s /\ loc' = l /\ UNCHANGED <<pc, ret, disk>>
    BY <1>4, <2>2, <2>3 DEF FileTypes, EcmType
  <2>4. CASE /\ \E n \in 0 .. Len(s) : out' = out \o Slice(s, 0, n)
             /\ loc' = [l EXCEPT !.myError = 5, !.io = TRUE]
             /\ disk' = out' /\ pc' = "done" /\ ret' = 5
    <3>1. loc' \in EcmLocals
      <4>1. PICK e \in Int : e = 5
        OBVIOUS
      <4>2. PICK io \in BOOLEAN : io = TRUE
        OBVIOUS
      <4>3. [l EXCEPT !.myError = e, !.io = io] \in EcmLocals
        BY <1>4, EcmSet
      <4> QED  BY <2>4, <4>1, <4>2, <4>3
    <3> QED  BY <1>1, <1>4, <2>1, <2>4, <3>1 DEF FileTypes, EcmType
  <2> QED  BY <1>4, <2>3, <2>4 DEF EcmWrite
<1>5. CASE EcmOpen
  <2>1. CASE \E io \in BOOLEAN : EcmError(io)
    BY <1>3, <1>5, <2>1 DEF EcmOpen
  <2>2. CASE pc' = "segment" /\ UNCHANGED <<ret, disk, loc>>
    BY <1>5, <2>2 DEF EcmOpen, FileTypes, EcmType
  <2> QED  BY <1>5, <2>1, <2>2 DEF EcmOpen
<1>6. CASE EcmSegment
  <2>1. PICK c : c = job.segs[at + 1]
    OBVIOUS
  <2>2. CASE EcmError(FALSE) /\ at' = at
    BY <1>3, <1>6, <2>2 DEF EcmSegment
  <2>3. CASE /\ at < Len(job.segs) /\ EcmFits(c.digits) /\ at' = at + 1 /\ UNCHANGED <<ret, disk>>
             /\ \/ pc' = "verify" /\ loc' = loc
                \/ /\ pc' = IF c.type = 0 THEN "literal" ELSE "sector"
                   /\ loc' = [loc EXCEPT !.num = EcmCount(c.digits) + 1, !.pos = 0]
    <3>1. at' \in 1 .. Len(job.segs) /\ at' > 0 /\ at' \in Nat
      BY <1>1, <2>3
    <3>2. EcmCount(c.digits) + 1 \in Nat
      <4>1. Counts - 1 \in Int
        BY EcmAssumption
      <4>2. EcmCount(c.digits) \in 0 .. (Counts - 1)
        BY <2>3 DEF EcmFits
      <4>3. EcmCount(c.digits) \in Nat
        BY <4>1, <4>2
      <4> QED  BY <4>3
    <3>3. loc' \in EcmLocals
      <4>1. PICK a \in Nat, b \in Nat : a = EcmCount(c.digits) + 1 /\ b = 0
        BY <3>2
      <4>2. loc' = loc \/ loc' = [loc EXCEPT !.num = a, !.pos = b]
        BY <2>3, <4>1
      <4>3. [loc EXCEPT !.num = a, !.pos = b] \in EcmLocals
        BY <1>1, EcmSet, Zenon
      <4> QED  BY <1>1, <4>2, <4>3
    <3>4. out' = out
      BY <1>6 DEF EcmSegment
    <3>5. pc' = "sector" => job.segs[at'].type # 0
      BY <2>1, <2>3
    <3>6. at' \in 0 .. Len(job.segs)
      BY <3>1
    <3> QED  BY <2>3, <3>1, <3>3, <3>4, <3>5, <3>6 DEF FileTypes, EcmType
  <2> QED  BY <1>6, <2>1, <2>2, <2>3, ZenonT(40), SMTT(30) DEF EcmSegment
<1>7. CASE EcmLiteral
  <2>1. PICK b : b = Min({loc.num, SectorLen})
    OBVIOUS
  <2>2. b \in Nat /\ b <= loc.num /\ b <= SectorLen /\ SectorLen \in Nat
    BY <1>1, <2>1, MinOf, EcmSizes
  <2>3. PICK got : got = Slice(job.segs[at].data, loc.pos, b)
    OBVIOUS
  <2>4. pc = "literal" /\ at' = at /\ at \in 1 .. Len(job.segs)
    BY <1>1, <1>7 DEF EcmLiteral, EcmType
  <2>5. got \in File
    BY <1>1, <1>2, <2>2, <2>3, <2>4, AnySlice
  <2>6. CASE loc.num = 0 /\ pc' = "segment" /\ UNCHANGED <<out, disk, loc, ret>>
    BY <2>4, <2>6 DEF FileTypes, EcmType
  <2>7. CASE EcmError(FALSE) /\ out' = out
    BY <1>3, <2>4, <2>7
  <2>8. CASE Len(got) = b /\ EcmWrite(got, [loc EXCEPT !.num = @ - b, !.pos = @ + b, !.sector = Put(@, 0, got)])
    <3>1. PICK x, y, z : x = loc.num - b /\ y = loc.pos + b /\ z = Put(loc.sector, 0, got)
      OBVIOUS
    <3>2. x \in Nat /\ y \in Nat
      BY <1>1, <2>2, <3>1
    <3>3. z \in File /\ Len(z) = SectorLen
      <4>1. 0 + Len(got) <= Len(loc.sector)
        BY <1>1, <2>2, <2>8
      <4> QED  BY <1>1, <2>5, <3>1, <4>1, HoldsPut
    <3>4. [loc EXCEPT !.num = x, !.pos = y, !.sector = z] \in EcmLocals
      <4>1. z \in EcmBuffers
        BY <3>3 DEF EcmBuffers
      <4> QED  BY <1>1, <3>2, <4>1, EcmSet
    <3> QED  BY <1>4, <2>4, <2>5, <2>8, <3>1, <3>4
  <2> QED  BY <1>7, <2>1, <2>3, <2>6, <2>7, <2>8 DEF EcmLiteral
<1>8. CASE EcmSector
  <2>1. pc = "sector" /\ at' = at /\ at \in 1 .. Len(job.segs)
    <3>1. pc = "sector" /\ at' = at
      BY <1>8 DEF EcmSector
    <3> QED  BY <1>1, <3>1 DEF EcmType
  <2>2. PICK c : c = job.segs[at]
    OBVIOUS
  <2>3. c.type \in 1 .. 3 /\ c.data \in File
    <3>1. c.type \in 0 .. 3 /\ c.type # 0
      BY <1>2, <2>1, <2>2 DEF EcmType
    <3> QED  BY <1>2, <2>1, <2>2, <3>1
  <2>4. Stored(c.type) \in Nat
    BY <2>3, EcmLens
  <2>5. PICK got : got = Slice(c.data, loc.pos, Stored(c.type))
    OBVIOUS
  <2>6. got \in File
    BY <1>1, <2>3, <2>4, <2>5, AnySlice
  <2>7. CASE loc.num = 0 /\ pc' = "segment" /\ UNCHANGED <<out, disk, loc, ret>>
    BY <2>1, <2>7 DEF FileTypes, EcmType
  <2>8. CASE EcmError(FALSE) /\ out' = out
    BY <1>3, <2>1, <2>8
  <2>9. ASSUME NEW new \in reconstruct_sector(ReadSector(loc.sector, got, c.type), c.type),
               loc.num > 0, Len(got) = Stored(c.type),
               EcmWrite(Written(new, c.type), [loc EXCEPT !.num = @ - 1, !.pos = @ + Stored(c.type), !.sector = new])
        PROVE  FileTypes' /\ EcmType'
    <3>1. new \in File /\ Len(new) = SectorLen /\ Written(new, c.type) \in File
      BY <1>1, <2>3, <2>6, <2>9, EcmSectorIs
    <3>2. PICK x, y : x = loc.num - 1 /\ y = loc.pos + Stored(c.type)
      OBVIOUS
    <3>3. x \in Nat /\ y \in Nat
      BY <1>1, <2>4, <2>9, <3>2
    <3>4. [loc EXCEPT !.num = x, !.pos = y, !.sector = new] \in EcmLocals
      <4>1. new \in EcmBuffers
        BY <3>1 DEF EcmBuffers
      <4> QED  BY <1>1, <3>3, <4>1, EcmSet
    <3> QED  BY <1>4, <2>1, <2>9, <3>1, <3>2, <3>4
  <2> QED  BY <1>8, <2>2, <2>5, <2>7, <2>8, <2>9 DEF EcmSector
<1>9. CASE EcmVerify
  <2>1. CASE EcmError(FALSE)
    BY <1>3, <1>9, <2>1 DEF EcmVerify
  <2>2. CASE Close(loc.myError) /\ loc' = loc
    <3>1. loc.myError \in Int
      BY DEF EcmType, EcmLocals
    <3> QED  BY <1>9, <2>2, <3>1 DEF EcmVerify, Close, FileTypes, EcmType
  <2> QED  BY <1>9, <2>1, <2>2 DEF EcmVerify
<1> QED  BY <1>5, <1>6, <1>7, <1>8, <1>9 DEF EcmNext

(* The types of every format, and of the locals they rest on.                *)
CallType == /\ FileTypes /\ job.fmt \in AllFormats /\ job \in Jobs(job.fmt)
            /\ job.fmt \in IpsFormats => loc \in IpsLocals
            /\ job.fmt = "apsn64" => loc \in N64Locals
            /\ job.fmt = "ecm" => EcmType

(* They hold when a call starts.                                             *)
LEMMA CallTypeStarts == Init => CallType
<1> SUFFICES ASSUME Init PROVE CallType
  OBVIOUS
<1>1. PICK f \in AllFormats : job \in Jobs(f)
  BY DEF Init, IpsInit, PpfInit, DpsInit, ApsGbaInit, N64Init, BpsInit, BsInit, XpcInit, UpsInit, EcmInit, DldiInit,
         AllFormats, IpsFormats
<1>2. job.fmt = f /\ job.rom \in File /\ <<>> \in File
  BY <1>1, JobFormat DEF File
<1>3. at = 0 /\ ret \in {0, 1} /\ out \in {job.rom, <<>>} /\ disk \in {job.rom, <<>>}
  BY DEF Init, IpsInit, PpfInit, DpsInit, ApsGbaInit, N64Init, BpsInit, BsInit, XpcInit, UpsInit, EcmInit, DldiInit
<1>4. FileTypes
  BY <1>2, <1>3 DEF FileTypes
<1>5. ASSUME job.fmt \in IpsFormats PROVE loc \in IpsLocals
  <2>1. 0 \in Byte /\ loc = [offset |-> 0, size |-> 0, rle |-> FALSE, rleData |-> 0, n |-> 0]
    BY <1>5, Begins, BaseAssumption DEF IpsInit, Byte
  <2> QED  BY <2>1 DEF IpsLocals
<1>6. ASSUME job.fmt = "apsn64" PROVE loc \in N64Locals
  <2>1. PICK b \in Byte : loc = [Force |-> ~job.again, Size |-> <<>>, Buffer |-> Fill(Base - 1, b), n |-> 0]
    BY <1>6, Begins DEF N64Init
  <2>2. Base - 1 \in Nat
    BY BaseAssumption
  <2>3. Fill(Base - 1, b) \in PpfMem
    BY <2>2, FillBytes DEF PpfMem
  <2> QED  BY <2>1, <2>3 DEF N64Locals
<1>7. ASSUME job.fmt = "ecm" PROVE EcmType
  <2>1. EcmInit
    BY <1>7, Begins
  <2>2. PICK b \in Byte : loc = [sector |-> Fill(SectorLen, b), num |-> 0, pos |-> 0, myError |-> job.before, io |-> FALSE]
    BY <2>1 DEF EcmInit
  <2>3. SectorLen \in Nat /\ job.before \in Int /\ 0 \in 0 .. Len(job.segs)
    <3>1. job \in Jobs("ecm")
      BY <2>1 DEF EcmInit
    <3>2. job.segs \in Seq(EcmSegments) /\ job.before \in Int
      BY <3>1, EcmAssumption
    <3> QED  BY <3>2, EcmSizes
  <2>4. Fill(SectorLen, b) \in EcmBuffers
    BY <2>3, FillBytes DEF EcmBuffers
  <2>5. loc \in EcmLocals
    BY <2>2, <2>3, <2>4 DEF EcmLocals
  <2> QED  BY <2>1, <2>3, <2>5 DEF EcmInit, EcmType
<1> QED  BY <1>1, <1>2, <1>4, <1>5, <1>6, <1>7 DEF CallType

(* And every step keeps them.                                                *)
LEMMA CallTypeStep == CallIInv /\ CallIInv' /\ CallType /\ [Next]_vars => CallType'
<1> SUFFICES ASSUME CallIInv, CallIInv', CallType, [Next]_vars PROVE CallType'
  OBVIOUS
<1>1. job' = job /\ FileTypes /\ job.fmt \in AllFormats /\ job \in Jobs(job.fmt)
  BY JobKept DEF CallType
<1>2. CASE UNCHANGED vars
  BY <1>2 DEF CallType, FileTypes, EcmType, vars
<1>3. CASE job.fmt \in IpsFormats /\ IpsNext
  <2>1. FileTypes' /\ loc' \in IpsLocals
    BY <1>1, <1>3, IpsTypes DEF CallType
  <2> QED  BY <1>1, <1>3, <2>1 DEF CallType, IpsFormats
<1>4. CASE job.fmt = "apsn64" /\ N64Next
  <2>1. FileTypes' /\ loc' \in N64Locals
    BY <1>1, <1>4, N64Types DEF CallType
  <2> QED  BY <1>1, <1>4, <2>1 DEF CallType, IpsFormats
<1>5. CASE job.fmt = "ecm" /\ EcmNext
  <2>1. FileTypes' /\ EcmType'
    BY <1>1, <1>5, EcmTypes DEF CallType
  <2> QED  BY <1>1, <1>5, <2>1 DEF CallType, IpsFormats
<1>6. CASE job.fmt \in {"ppf", "dps", "apsgba", "bps", "bsdiff", "xpc", "ups", "dldi"} /\ FileTypes'
  BY <1>1, <1>6 DEF CallType, IpsFormats
<1>7. ASSUME job.fmt = "dps", DpsNext PROVE FileTypes'
  BY <1>1, <1>7, DpsTypes
<1>8. ASSUME job.fmt = "xpc", XpcNext PROVE FileTypes'
  BY <1>1, <1>8, XpcTypes DEF CallIInv
<1>9. ASSUME job.fmt = "bps", BpsNext PROVE FileTypes'
  BY <1>1, <1>9, BpsTypes DEF CallIInv, BpsIInv
<1>10. ASSUME job.fmt = "bsdiff", BsNext PROVE FileTypes'
  BY <1>1, <1>10, BsTypes DEF CallIInv, BsIInv
<1>11. ASSUME job.fmt = "apsgba", ApsGbaNext PROVE FileTypes'
  BY <1>1, <1>11, GbaTypes DEF CallIInv, GbaIInv
<1>12. ASSUME job.fmt = "ppf" PROVE FileTypes'
  BY <1>1, <1>12 DEF CallIInv, PpfIInv, PpfType, FileTypes
<1>13. ASSUME job.fmt = "ups" PROVE FileTypes'
  BY <1>1, <1>13 DEF CallIInv, BothIInv, UpsType, FileTypes
<1>14. ASSUME job.fmt = "dldi" PROVE FileTypes'
  BY <1>1, <1>14 DEF CallIInv, DldiIInv, DldiType
<1>15. Step \/ UNCHANGED vars
  BY DEF Next, Done
<1> QED  BY <1>2, <1>3, <1>4, <1>5, <1>6, <1>7, <1>8, <1>9, <1>10, <1>11, <1>12, <1>13, <1>14, <1>15 DEF Step

(* In every format and whatever the patch holds, the files hold bytes and    *)
(* the position in the patch stays a number: no read comes back with what is *)
(* not a byte, and no offset, length or address that is computed from the    *)
(* patch reaches the files other than as a place behind their start.         *)
THEOREM TypesAlwaysHeld == Spec => []TypeOK
<1>1. CallType => TypeOK
  BY JobAssumption DEF CallType, FileTypes, TypeOK
<1>2. CallType /\ CallIInv /\ CallIInv' /\ [Next]_vars => CallType'
  BY CallTypeStep
<1> QED  BY <1>1, <1>2, CallTypeStarts, CallAlways, PTL DEF Spec

(* An intact driver that is loaded, fits and can be written back stands in   *)
(* the application as it would be if it had been linked there: every address *)
(* of its header, its code and its tables is moved once, however often and   *)
(* at whatever bytes the overlapping searches come by it, and the rest of    *)
(* the application is as it was.                                             *)
THEOREM DldiAlwaysRelocated == Spec => []DldiRelocated
<1>1. CallIInv => DldiRelocated
  BY DEF CallIInv, DldiIInv, DldiRelocated
<1> QED  BY <1>1, CallAlways, PTL

-----------------------------------------------------------------------------
(* The records that are left, and the other variables of RecordPatch as a    *)
(* call shows them.                                                          *)
LaidFile == IF Listed THEN RecordFile ELSE <<>>
LaidTodo == IF Listed THEN [k \in 1 .. (Len(job.recs) - loc.n) |->
                              [offset |-> OffsetOf(job.recs[loc.n + k]), data |-> job.recs[loc.n + k].data]]
            ELSE <<>>
LaidSpoiled == /\ Listed
               /\ \/ job.fmt \in IpsFormats /\ loc.n > job.full
                  \/ job.fmt = "xpc" /\ loc.n > at
LaidResult == IF pc # "done" \/ ~Listed THEN "running" ELSE IF ret = 0 THEN "patched" ELSE "failed"

(* A step that changes none of them is a stutter.                            *)
LEMMA LaidStutter ==
    ASSUME UNCHANGED <<LaidFile, LaidTodo, LaidSpoiled, LaidResult>>
    PROVE  UNCHANGED R!rvars
  BY DEF R!rvars, LaidFile, LaidTodo, LaidSpoiled, LaidResult

(* A step that only fails.                                                   *)
LEMMA LaidFail ==
    ASSUME UNCHANGED <<LaidFile, LaidTodo, LaidSpoiled>>, LaidResult = "running", LaidResult' = "failed"
    PROVE  R!RNext
<1>1. R!Fail
  BY DEF R!Fail, LaidFile, LaidTodo, LaidSpoiled, LaidResult
<1> QED  BY <1>1 DEF R!RNext

(* A step that reports success.                                              *)
LEMMA LaidSucceed ==
    ASSUME UNCHANGED <<LaidFile, LaidTodo, LaidSpoiled>>, LaidResult = "running", LaidResult' = "patched",
           ~LaidSpoiled, LaidTodo = <<>>
    PROVE  R!RNext
<1>1. R!Succeed
  BY DEF R!Succeed, LaidFile, LaidTodo, LaidSpoiled, LaidResult
<1> QED  BY <1>1 DEF R!RNext

(* RecordPatch lays data over a file as the calls do.                        *)
LEMMA SamePut == \A f, k, d : R!Put(f, k, d) = Put(f, k, d)
  BY DEF R!Put, R!Slice, R!Fill, Put, Slice, Fill

(* A step that lays the next record over the file.                           *)
LEMMA LaidApply ==
    ASSUME LaidResult = "running", UNCHANGED <<LaidSpoiled, LaidResult>>, ~LaidSpoiled, LaidTodo # <<>>,
           LaidTodo' = Tail(LaidTodo), LaidFile' = Put(LaidFile, Head(LaidTodo).offset, Head(LaidTodo).data)
    PROVE  R!RNext
<1>1. R!ApplyRecord
  BY SamePut DEF R!ApplyRecord, LaidFile, LaidTodo, LaidSpoiled, LaidResult
<1> QED  BY <1>1 DEF R!RNext

(* A step that damages it.                                                   *)
LEMMA LaidSpoil ==
    ASSUME LaidResult = "running", LaidResult' \in {"running", "failed"}, ~LaidSpoiled, LaidSpoiled' = TRUE,
           LaidTodo # <<>>, LaidTodo' = Tail(LaidTodo),
           NEW n \in 0 .. Len(Head(LaidTodo).data), NEW d \in [1 .. n -> Byte],
           LaidFile' = Put(LaidFile, Head(LaidTodo).offset, d)
    PROVE  R!RNext
<1>1. R!SpoilRecord
  BY SamePut DEF R!SpoilRecord, LaidFile, LaidTodo, LaidSpoiled, LaidResult
<1> QED  BY <1>1 DEF R!RNext

(* One record less is left.                                                  *)
LEMMA LaidNext ==
    ASSUME Listed, job' = job, Len(job.recs) \in Nat, loc.n \in Nat, loc.n < Len(job.recs), loc'.n = loc.n + 1
    PROVE  /\ LaidTodo # <<>> /\ LaidTodo' = Tail(LaidTodo)
           /\ Head(LaidTodo).offset = OffsetOf(job.recs[loc.n + 1])
           /\ Head(LaidTodo).data = job.recs[loc.n + 1].data
<1>1. PICK m, e : m = Len(job.recs) - loc.n /\ e = [k \in 1 .. m |->
                    [offset |-> OffsetOf(job.recs[loc.n + k]), data |-> job.recs[loc.n + k].data]]
  OBVIOUS
<1>2. m \in Nat /\ m > 0 /\ Len(job.recs) - (loc.n + 1) = m - 1 /\ m - 1 \in Nat /\ 1 \in 1 .. m
  BY <1>1
<1>3. LaidTodo = e /\ Listed'
  BY <1>1 DEF LaidTodo, Listed
<1>4. LaidTodo' = [k \in 1 .. (m - 1) |->
                     [offset |-> OffsetOf(job.recs[loc.n + 1 + k]), data |-> job.recs[loc.n + 1 + k].data]]
  BY <1>2, <1>3 DEF LaidTodo, OffsetOf
<1>5. PICK S : S = {e[k] : k \in 1 .. m}
  OBVIOUS
<1>6. e \in Seq(S) /\ Len(e) = m
  <2>1. DOMAIN e = 1 .. m /\ e = [k \in 1 .. m |-> e[k]]
    BY <1>1
  <2>2. \A k \in 1 .. m : e[k] \in S
    BY <1>5
  <2>3. e \in [1 .. m -> S]
    BY <2>1, <2>2, Zenon
  <2> QED  BY <1>2, <2>3
<1>7. e # <<>>
  BY <1>2, <1>6
<1>8. Tail(e) \in Seq(S) /\ Len(Tail(e)) = m - 1 /\ \A k \in 1 .. (m - 1) : Tail(e)[k] = e[k + 1]
  BY <1>2, <1>6, <1>7, HeadTailProperties
<1>9. Tail(e) = [k \in 1 .. (m - 1) |-> Tail(e)[k]]
  <2>1. PICK t : t = Tail(e)
    OBVIOUS
  <2>2. t \in Seq(S) /\ Len(t) = m - 1
    BY <1>8, <2>1
  <2>3. t = [k \in 1 .. (m - 1) |-> t[k]]
    BY <1>2, <2>2
  <2> QED  BY <2>1, <2>3
<1>10. ASSUME NEW k \in 1 .. (m - 1)
       PROVE  e[k + 1] = [offset |-> OffsetOf(job.recs[loc.n + 1 + k]), data |-> job.recs[loc.n + 1 + k].data]
  <2>1. k + 1 \in 1 .. m /\ loc.n + (k + 1) = loc.n + 1 + k
    BY <1>2
  <2>2. e[k + 1] = [offset |-> OffsetOf(job.recs[loc.n + (k + 1)]), data |-> job.recs[loc.n + (k + 1)].data]
    BY <1>1, <2>1
  <2> QED  BY <2>1, <2>2
<1>11. LaidTodo' = Tail(e)
  BY <1>4, <1>8, <1>9, <1>10
<1>12. Head(e) = [offset |-> OffsetOf(job.recs[loc.n + 1]), data |-> job.recs[loc.n + 1].data]
  <2>1. Head(e) = e[1]
    BY <1>6
  <2> QED  BY <1>1, <1>2, <2>1
<1> QED  BY <1>3, <1>7, <1>11, <1>12

(* No record is left behind the last one.                                    *)
LEMMA LaidLast == ASSUME loc.n = Len(job.recs), Len(job.recs) \in Nat PROVE LaidTodo = <<>>
<1>1. Len(job.recs) - loc.n = 0
  OBVIOUS
<1>2. CASE Listed
  <2>1. PICK e : e = [k \in 1 .. 0 |-> [offset |-> OffsetOf(job.recs[loc.n + k]), data |-> job.recs[loc.n + k].data]]
    OBVIOUS
  <2>2. e = <<>>
    BY <2>1
  <2> QED  BY <1>1, <1>2, <2>1, <2>2 DEF LaidTodo
<1> QED  BY <1>2 DEF LaidTodo

(* The file, the records left and the damage are the same when the call's    *)
(* own state is.                                                             *)
LEMMA LaidSame ==
    ASSUME UNCHANGED <<job, out, at, loc>>
    PROVE  UNCHANGED <<LaidFile, LaidTodo, LaidSpoiled>> /\ Listed' = Listed
  BY DEF LaidFile, LaidTodo, LaidSpoiled, Listed, RecordFile, Resized, OffsetOf

(* The steps of IPSPatch.                                                    *)
LEMMA IpsLays ==
    ASSUME IpsIInv, job.made, IpsNext, job' = job
    PROVE  R!RNext \/ UNCHANGED R!rvars
<1>1. job.fmt \in IpsFormats /\ job \in Jobs(job.fmt) /\ job.fmt # "xpc" /\ job.fmt # "apsn64"
  BY DEF IpsIInv, IpsFormats
<1>2. Listed /\ Listed' /\ LaidFile = out /\ LaidFile' = out'
  BY <1>1 DEF Listed, LaidFile, RecordFile
<1>3. /\ LaidSpoiled <=> loc.n > job.full
      /\ LaidSpoiled' <=> loc'.n > job.full
      /\ \A r : OffsetOf(r) = r.offset
  BY <1>1, <1>2 DEF LaidSpoiled, OffsetOf
<1>4. Len(job.recs) \in Nat /\ job.full \in Nat /\ job.full <= Len(job.recs)
  BY <1>1, IpsGiven
<1>5. CASE IPSOpen
  <2>1. pc = "IPSOpen" /\ UNCHANGED <<job, out, at, loc>>
    BY <1>5 DEF IPSOpen
  <2>2. CASE pc' = "done" /\ ret' = -3
    <3>1. LaidResult = "running" /\ LaidResult' = "failed"
      BY <1>2, <2>1, <2>2 DEF LaidResult
    <3> QED  BY <2>1, <3>1, LaidSame, LaidFail
  <2>3. CASE pc' = "IPSReadRecord"
    <3>1. LaidResult = "running" /\ LaidResult' = "running"
      BY <1>2, <2>1, <2>3 DEF LaidResult
    <3> QED  BY <2>1, <3>1, LaidSame, LaidStutter
  <2> QED  BY <1>5, <2>2, <2>3 DEF IPSOpen, Close
<1>6. CASE IPSReadRecord
  <2>1. pc = "IPSReadRecord" /\ UNCHANGED <<job, out>>
    BY <1>6 DEF IPSReadRecord
  <2>2. ASSUME loc'.n = loc.n PROVE UNCHANGED <<LaidFile, LaidTodo, LaidSpoiled>>
    <3>1. LaidFile' = LaidFile /\ LaidTodo' = LaidTodo
      BY <1>2, <2>1, <2>2 DEF LaidTodo, OffsetOf
    <3>2. LaidSpoiled' = LaidSpoiled
      BY <1>1, <1>2, <2>1, <2>2 DEF LaidSpoiled
    <3> QED  BY <3>1, <3>2
  <2>3. CASE IpsFailed
    <3>1. LaidResult = "running" /\ LaidResult' = "failed" /\ loc'.n = loc.n
      BY <1>2, <2>1, <2>3 DEF LaidResult, IpsFailed
    <3> QED  BY <2>2, <3>1, LaidFail
  <2>4. CASE IpsFinished
    <3>1. LaidResult = "running" /\ LaidResult' = "patched" /\ loc'.n = loc.n /\ loc.n = Len(job.recs)
          /\ loc.n \in 0 .. job.full
      BY <1>2, <2>1, <2>4 DEF LaidResult, IpsFinished, IpsReady
    <3>2. ~LaidSpoiled
      BY <1>3, <1>4, <3>1
    <3>3. LaidTodo = <<>>
      BY <1>4, <3>1, LaidLast
    <3> QED  BY <2>2, <3>1, <3>2, <3>3, LaidSucceed
  <2>5. CASE pc' = "IPSProcessRecord" /\ loc'.n = loc.n
    <3>1. LaidResult' = LaidResult
      BY <1>2, <2>1, <2>5 DEF LaidResult
    <3> QED  BY <2>2, <2>5, <3>1, LaidStutter
  <2> QED  BY <1>6, <2>3, <2>4, <2>5, IpsReadStep
<1>7. CASE IPSProcessRecord
  <2>1. PICK r : r = job.recs[loc.n + 1]
    OBVIOUS
  <2>2. /\ pc' = "IPSReadRecord" /\ loc.n \in 0 .. job.full /\ loc.n < Len(job.recs) /\ loc'.n = loc.n + 1
        /\ \/ IpsReady' /\ loc.n + 1 <= job.full /\ out' = Put(out, r.offset, r.data)
           \/ IpsSpoilt' /\ \E d \in [1 .. Len(r.data) -> Byte] : out' = Put(out, r.offset, d)
    BY <1>7, <2>1, IpsProcessStep
  <2>3. pc = "IPSProcessRecord"
    BY <1>7 DEF IPSProcessRecord
  <2>4. LaidResult = "running" /\ LaidResult' = "running"
    BY <2>2, <2>3 DEF LaidResult
  <2>5. loc.n \in Nat /\ ~LaidSpoiled
    BY <1>3, <1>4, <2>2
  <2>6. /\ LaidTodo # <<>> /\ LaidTodo' = Tail(LaidTodo)
        /\ Head(LaidTodo).offset = r.offset /\ Head(LaidTodo).data = r.data
    BY <1>2, <1>3, <1>4, <2>1, <2>2, <2>5, LaidNext
  <2>7. CASE IpsReady' /\ loc.n + 1 <= job.full /\ out' = Put(out, r.offset, r.data)
    <3>1. ~LaidSpoiled'
      BY <1>3, <1>4, <2>2, <2>5, <2>7
    <3>2. LaidSpoiled' = LaidSpoiled
      BY <2>5, <3>1 DEF LaidSpoiled
    <3> QED  BY <1>2, <2>4, <2>5, <2>6, <2>7, <3>2, LaidApply
  <2>8. CASE IpsSpoilt' /\ \E d \in [1 .. Len(r.data) -> Byte] : out' = Put(out, r.offset, d)
    <3>1. loc'.n > job.full
      BY <1>4, <2>8 DEF IpsSpoilt
    <3>2. LaidSpoiled' = TRUE
      BY <1>1, <1>2, <3>1 DEF LaidSpoiled
    <3>3. PICK d \in [1 .. Len(r.data) -> Byte] : out' = Put(out, r.offset, d)
      BY <2>8
    <3>4. Len(Head(LaidTodo).data) \in 0 .. Len(Head(LaidTodo).data)
      <4>1. Len(r.data) \in Nat
        <5>1. job.recs \in Seq(IpsRecords) /\ loc.n + 1 \in 1 .. Len(job.recs)
          BY <1>1, <1>4, <2>2, <2>5, IpsGiven
        <5>2. r \in IpsRecords
          BY <2>1, <5>1
        <5> QED  BY <5>2 DEF IpsRecords, File
      <4> QED  BY <2>6, <4>1
    <3> QED  BY <1>2, <2>4, <2>5, <2>6, <3>2, <3>3, <3>4, LaidSpoil
  <2> QED  BY <2>2, <2>7, <2>8
<1> QED  BY <1>5, <1>6, <1>7 DEF IpsNext

(* The steps of n64aps: resizing is part of the file RecordPatch starts      *)
(* with.                                                                     *)
LEMMA N64Lays ==
    ASSUME N64IInv, job.whole, N64Next, job' = job
    PROVE  R!RNext \/ UNCHANGED R!rvars
<1>1. job \in Jobs("apsn64") /\ job.fmt = "apsn64" /\ job.fmt # "xpc" /\ job.fmt \notin IpsFormats
  <2>1. job \in Jobs("apsn64")
    BY DEF N64IInv
  <2>2. job.fmt = "apsn64"
    BY <2>1, JobFormat DEF AllFormats
  <2> QED  BY <2>1, <2>2 DEF IpsFormats
<1>2. Listed /\ Listed'
  BY <1>1 DEF Listed
<1>3. LaidSpoiled = FALSE /\ LaidSpoiled' = FALSE /\ \A r : OffsetOf(r) = r.offset
  BY <1>1 DEF LaidSpoiled, OffsetOf
<1>4. Len(job.recs) \in Nat
  <2>1. job.recs \in Seq(N64Records)
    BY <1>1, N64Assumption DEF N64Made
  <2> QED  BY <2>1
<1>5. /\ at = 0 => LaidFile = Resized
      /\ at > 0 => LaidFile = out
      /\ at' > 0 => LaidFile' = out'
  BY <1>1, <1>2 DEF LaidFile, RecordFile
<1>6. CASE ReadHeaders
  <2>1. pc = "ReadHeaders" /\ UNCHANGED <<job, out, at, loc>>
    BY <1>6 DEF ReadHeaders
  <2>2. CASE pc' = "done" /\ ret' # 0
    <3>1. LaidResult = "running" /\ LaidResult' = "failed"
      BY <1>2, <2>1, <2>2 DEF LaidResult
    <3> QED  BY <2>1, <3>1, LaidSame, LaidFail
  <2>3. CASE pc' = "ReadSizeHeader"
    <3>1. LaidResult' = LaidResult
      BY <1>2, <2>1, <2>3 DEF LaidResult
    <3> QED  BY <2>1, <3>1, LaidSame, LaidStutter
  <2> QED  BY <1>6, <2>2, <2>3 DEF ReadHeaders, Close, Crash
<1>7. CASE ReadSizeHeader
  <2>1. pc' = "ReadPatch" /\ UNCHANGED <<job, loc, ret>> /\ at' > 0 /\ out' = Resized
    BY <1>7, N64Resize
  <2>2. pc = "ReadSizeHeader" /\ at = 0
    BY <1>7 DEF ReadSizeHeader, N64IInv
  <2>3. LaidFile' = LaidFile
    BY <1>5, <2>1, <2>2
  <2>4. LaidTodo' = LaidTodo /\ LaidResult' = LaidResult
    BY <1>2, <2>1, <2>2 DEF LaidTodo, LaidResult, OffsetOf
  <2> QED  BY <1>3, <2>3, <2>4, LaidStutter
<1>8. CASE ReadPatch
  <2>1. pc = "ReadPatch" /\ at > 0 /\ loc.n \in 0 .. Len(job.recs)
    BY <1>8 DEF ReadPatch, N64IInv, N64Ready
  <2>2. LaidFile = out /\ LaidResult = "running" /\ loc.n \in Nat
    BY <1>4, <1>5, <2>1 DEF LaidResult
  <2>3. CASE /\ loc.n < Len(job.recs) /\ pc' = "ReadPatch" /\ loc'.n = loc.n + 1 /\ at' > 0
             /\ out' = Put(out, job.recs[loc.n + 1].offset, job.recs[loc.n + 1].data)
    <3>1. PICK r : r = job.recs[loc.n + 1]
      OBVIOUS
    <3>2. /\ LaidTodo # <<>> /\ LaidTodo' = Tail(LaidTodo)
          /\ Head(LaidTodo).offset = r.offset /\ Head(LaidTodo).data = r.data
      BY <1>2, <1>3, <1>4, <2>2, <2>3, <3>1, LaidNext
    <3>3. LaidResult' = LaidResult
      BY <2>1, <2>3 DEF LaidResult
    <3>4. LaidFile' = Put(LaidFile, r.offset, r.data)
      BY <1>5, <2>2, <2>3, <3>1
    <3> QED  BY <1>3, <2>2, <3>2, <3>3, <3>4, LaidApply
  <2>4. CASE loc.n = Len(job.recs) /\ pc' = "done" /\ ret' = 0 /\ UNCHANGED <<out, at, loc>>
    <3>1. LaidResult' = "patched"
      BY <1>2, <2>4 DEF LaidResult
    <3>2. LaidTodo = <<>>
      BY <1>4, <2>4, LaidLast
    <3> QED  BY <1>3, <2>2, <2>4, <3>1, <3>2, LaidSame, LaidSucceed
  <2> QED  BY <1>8, <2>3, <2>4, N64Turn
<1> QED  BY <1>6, <1>7, <1>8 DEF N64Next

(* The steps of xpcapply: the copy is part of the file RecordPatch starts    *)
(* with, also when a write error leaves a part of it only.                   *)
LEMMA XpcLays ==
    ASSUME XpcIInv, job.made, XpcNext, job' = job
    PROVE  R!RNext \/ UNCHANGED R!rvars
<1>1. job \in Jobs("xpc") /\ job.fmt = "xpc" /\ job.fmt # "apsn64" /\ job.fmt \notin IpsFormats
      /\ at \in 0 .. Len(job.recs)
  <2>1. job \in Jobs("xpc") /\ at \in 0 .. Len(job.recs)
    BY DEF XpcIInv
  <2>2. job.fmt = "xpc"
    BY <2>1, JobFormat DEF AllFormats
  <2> QED  BY <2>1, <2>2 DEF IpsFormats
<1>2. Listed /\ Listed'
  BY <1>1 DEF Listed
<1>3. job.rom \in File /\ Len(job.rom) \in Nat /\ Len(job.recs) \in Nat
  <2>1. job.rom \in File /\ job.recs \in Seq([page : Nat, address : Nat, data : File])
    BY <1>1, JobFormat, XpcAssumption DEF AllFormats
  <2> QED  BY <2>1 DEF File
<1>4. /\ (LaidSpoiled <=> loc.n > at) /\ (LaidSpoiled' <=> loc'.n > at')
      /\ LaidSpoiled \in BOOLEAN /\ LaidSpoiled' \in BOOLEAN
      /\ \A r : OffsetOf(r) = Place(r)
  BY <1>1, <1>2 DEF LaidSpoiled, OffsetOf, Place
<1>5. /\ LaidFile = IF Len(out) < Len(job.rom) THEN job.rom ELSE out
      /\ LaidFile' = IF Len(out') < Len(job.rom) THEN job.rom ELSE out'
  BY <1>1, <1>2 DEF LaidFile, RecordFile
<1>6. CASE XpcCopy
  <2>1. pc = "copy" /\ UNCHANGED <<job, at, loc>> /\ out = <<>>
    BY <1>6 DEF XpcCopy, XpcIInv
  <2>2. LaidTodo' = LaidTodo /\ LaidSpoiled' = LaidSpoiled /\ LaidResult = "running"
    BY <1>2, <2>1 DEF LaidTodo, LaidSpoiled, LaidResult, OffsetOf
  <2>3. LaidFile = job.rom
    <3>1. CASE Len(job.rom) = 0
      <4>1. job.rom = <<>>
        BY <1>3, <3>1, EmptySeq DEF File
      <4> QED  BY <1>5, <2>1, <4>1
    <3>2. CASE Len(job.rom) > 0
      BY <1>5, <2>1, <3>2
    <3> QED  BY <1>3, <3>1, <3>2
  <2>4. CASE out' = job.rom /\ pc' = "readxpc"
    <3>1. LaidFile' = job.rom /\ LaidResult' = "running"
      BY <1>5, <2>4 DEF LaidResult
    <3> QED  BY <2>2, <2>3, <3>1, LaidStutter
  <2>5. CASE (\E n \in 0 .. Len(job.rom) : out' = Slice(job.rom, 0, n)) /\ pc' = "done" /\ ret' = Crash
    <3>1. PICK n \in 0 .. Len(job.rom) : out' = Slice(job.rom, 0, n)
      BY <2>5
    <3>2. n \in Nat /\ n <= Len(job.rom) /\ 0 + n = n
      BY <1>3, <3>1
    <3>3. out' \in File /\ Len(out') = n
      BY <1>3, <3>1, <3>2, SliceFile
    <3>4. LaidFile' = job.rom
      <4>1. CASE n < Len(job.rom)
        BY <1>5, <3>3, <4>1
      <4>2. CASE n = Len(job.rom)
        <5>1. ASSUME NEW i \in 1 .. n PROVE out'[i] = job.rom[i]
          <6>1. out'[i] = job.rom[0 + i]
            BY <1>3, <3>1, <3>2, SliceBytes
          <6>2. 0 + i = i
            BY <3>2
          <6> QED  BY <6>1, <6>2
        <5>2. out' = job.rom
          BY <1>3, <3>3, <4>2, <5>1, SameFile
        <5> QED  BY <1>5, <5>2
      <4> QED  BY <1>3, <3>2, <4>1, <4>2
    <3>5. LaidResult' = "failed"
      BY <1>2, <2>5 DEF LaidResult, Crash
    <3> QED  BY <2>2, <2>3, <3>4, <3>5, LaidFail
  <2> QED  BY <1>6, <2>4, <2>5 DEF XpcCopy
<1>7. CASE readxpc
  <2>1. pc = "readxpc" /\ UNCHANGED <<job, out, at, loc>>
    BY <1>7 DEF readxpc
  <2>2. CASE pc' = "done" /\ ret' = Crash
    <3>1. LaidResult = "running" /\ LaidResult' = "failed"
      BY <1>2, <2>1, <2>2 DEF LaidResult, Crash
    <3> QED  BY <2>1, <3>1, LaidSame, LaidFail
  <2>3. CASE pc' = "patch"
    <3>1. LaidResult' = LaidResult
      BY <1>2, <2>1, <2>3 DEF LaidResult
    <3> QED  BY <2>1, <3>1, LaidSame, LaidStutter
  <2> QED  BY <1>7, <2>2, <2>3 DEF readxpc, Close
<1>8. CASE XpcPatch
  <2>1. pc = "patch" /\ out \in File /\ Len(out) >= Len(job.rom) /\ loc.n = at /\ at \in Nat
    BY <1>1, <1>3, <1>8 DEF XpcPatch, XpcIInv
  <2>2. Len(out) \in Nat /\ LaidFile = out /\ ~LaidSpoiled /\ LaidResult = "running"
    <3>1. Len(out) \in Nat
      BY <2>1 DEF File
    <3>2. ~(Len(out) < Len(job.rom)) /\ ~(loc.n > at)
      BY <1>3, <2>1, <3>1
    <3> QED  BY <1>4, <1>5, <2>1, <3>1, <3>2 DEF LaidResult
  <2>3. PICK r : r = job.recs[at + 1]
    OBVIOUS
  <2>4. ASSUME at < Len(job.recs) PROVE r.data \in File /\ Len(r.data) \in Nat /\ Place(r) \in Nat
    BY <1>1, <2>3, <2>4, XpcPlace
  <2>5. ASSUME at < Len(job.recs), loc' = [n |-> at + 1]
        PROVE  /\ LaidTodo # <<>> /\ LaidTodo' = Tail(LaidTodo)
               /\ Head(LaidTodo).offset = Place(r) /\ Head(LaidTodo).data = r.data
    <3>1. loc.n \in Nat /\ loc.n < Len(job.recs) /\ loc'.n = loc.n + 1
      BY <2>1, <2>5
    <3> QED  BY <1>2, <1>3, <1>4, <2>1, <2>3, <3>1, LaidNext
  <2>6. ASSUME NEW d \in File, at < Len(job.recs), out' = Put(out, Place(r), d) PROVE LaidFile' = out'
    <3>1. out' \in File /\ Len(out') >= Len(out)
      BY <2>1, <2>4, <2>6, PutGrows
    <3>2. Len(out') \in Nat
      BY <3>1 DEF File
    <3>3. ~(Len(out') < Len(job.rom))
      BY <1>3, <2>1, <2>2, <3>1, <3>2
    <3> QED  BY <1>5, <3>3
  <2>7. CASE at < Len(job.recs) /\ at' = at + 1 /\ loc' = [n |-> at + 1] /\ out' = Put(out, Place(r), r.data) /\ pc' = pc
    <3>1. LaidFile' = Put(LaidFile, Place(r), r.data)
      BY <2>2, <2>4, <2>6, <2>7
    <3>2. LaidSpoiled' = LaidSpoiled
      <4>1. ~(loc'.n > at')
        BY <2>1, <2>7
      <4> QED  BY <1>4, <2>2, <4>1
    <3>3. LaidResult' = LaidResult
      BY <2>1, <2>7 DEF LaidResult
    <3> QED  BY <2>2, <2>5, <2>7, <3>1, <3>2, <3>3, LaidApply
  <2>8. CASE /\ at < Len(job.recs) /\ at' = at /\ loc' = [n |-> at + 1] /\ pc' = "done" /\ ret' = Crash
             /\ \E k \in 0 .. Len(r.data) : out' = Put(out, Place(r), Slice(r.data, 0, k))
    <3>1. PICK k \in 0 .. Len(r.data) : out' = Put(out, Place(r), Slice(r.data, 0, k))
      BY <2>8
    <3>2. PICK d : d = Slice(r.data, 0, k)
      OBVIOUS
    <3>3. k \in Nat /\ 0 + k <= Len(r.data)
      BY <2>4, <2>8, <3>1
    <3>4. d \in File /\ Len(d) = k
      BY <2>4, <2>8, <3>2, <3>3, SliceFile
    <3>5. d \in [1 .. k -> Byte]
      BY <3>4 DEF File
    <3>6. LaidFile' = Put(LaidFile, Place(r), d)
      BY <2>2, <2>6, <2>8, <3>1, <3>2, <3>4
    <3>7. LaidSpoiled' = TRUE
      <4>1. loc'.n > at'
        BY <2>1, <2>8
      <4> QED  BY <1>4, <4>1
    <3>8. LaidResult' = "failed"
      BY <1>2, <2>8 DEF LaidResult, Crash
    <3>9. /\ LaidTodo # <<>> /\ LaidTodo' = Tail(LaidTodo)
          /\ Head(LaidTodo).offset = Place(r) /\ Head(LaidTodo).data = r.data
      BY <2>5, <2>8
    <3>10. k \in 0 .. Len(Head(LaidTodo).data)
      BY <3>1, <3>9
    <3> QED  BY <2>2, <3>5, <3>6, <3>7, <3>8, <3>9, <3>10, LaidSpoil
  <2>9. CASE at = Len(job.recs) /\ pc' = "done" /\ ret' = 0 /\ UNCHANGED <<out, at, loc>>
    <3>1. LaidResult' = "patched"
      BY <1>2, <2>9 DEF LaidResult
    <3>2. LaidTodo = <<>>
      BY <1>3, <2>1, <2>9, LaidLast
    <3> QED  BY <2>2, <2>9, <3>1, <3>2, LaidSame, LaidSucceed
  <2> QED  BY <1>8, <2>3, <2>7, <2>8, <2>9 DEF XpcPatch, Close
<1> QED  BY <1>6, <1>7, <1>8 DEF XpcNext

(* Every step of a call is one that RecordPatch allows, or none.             *)
LEMMA LaysStep == CallIInv /\ [Next]_vars => [R!RNext]_(R!rvars)
<1> SUFFICES ASSUME CallIInv, [Next]_vars PROVE R!RNext \/ UNCHANGED R!rvars
  OBVIOUS
<1>1. job' = job
  BY JobKept
<1>2. CASE Done \/ UNCHANGED vars
  <2>1. UNCHANGED <<LaidFile, LaidTodo, LaidSpoiled>> /\ Listed' = Listed /\ pc' = pc /\ ret' = ret
    BY <1>2, LaidSame DEF Done, vars
  <2>2. LaidResult' = LaidResult
    BY <2>1 DEF LaidResult
  <2> QED  BY <2>1, <2>2, LaidStutter
<1>3. CASE ~Listed
  <2>1. ~Listed'
    BY <1>1, <1>3 DEF Listed
  <2>2. UNCHANGED <<LaidFile, LaidTodo, LaidSpoiled, LaidResult>>
    BY <1>3, <2>1 DEF LaidFile, LaidTodo, LaidSpoiled, LaidResult
  <2> QED  BY <2>2, LaidStutter
<1>4. CASE Listed /\ Next /\ ~Done
  <2>1. CASE job.fmt \in IpsFormats /\ job.made
    <3>1. IpsNext
      BY <1>4, <2>1 DEF Next, Step, IpsFormats
    <3> QED  BY <1>1, <2>1, <3>1, IpsLays DEF CallIInv
  <2>2. CASE job.fmt = "xpc" /\ job.made
    <3>1. XpcNext
      BY <1>4, <2>2 DEF Next, Step, IpsFormats
    <3> QED  BY <1>1, <2>2, <3>1, XpcLays DEF CallIInv
  <2>3. CASE job.fmt = "apsn64" /\ job.whole
    <3>1. N64Next
      BY <1>4, <2>3 DEF Next, Step, IpsFormats
    <3> QED  BY <1>1, <2>3, <3>1, N64Lays DEF CallIInv
  <2> QED  BY <1>4, <2>1, <2>2, <2>3 DEF Listed
<1> QED  BY <1>2, <1>3, <1>4

(* A call starts with nothing damaged and nothing reported.                  *)
LEMMA LaysStarts == Init => R!RInit
<1> SUFFICES ASSUME Init PROVE R!RInit
  OBVIOUS
<1>1. CallIInv
  BY CallStarts
<1>2. LaidSpoiled = FALSE /\ LaidResult = "running"
  <2>1. CASE ~Listed
    BY <2>1 DEF LaidSpoiled, LaidResult
  <2>2. CASE job.fmt \in IpsFormats /\ job.made
    <3>1. IpsInit /\ job \in Jobs(job.fmt)
      BY <1>1, <2>2, Begins DEF CallIInv, IpsIInv
    <3>2. job.full \in Nat /\ loc.n = 0 /\ pc # "done"
      BY <2>2, <3>1, IpsGiven DEF IpsInit
    <3>3. ~(loc.n > job.full) /\ job.fmt # "xpc"
      BY <2>2, <3>2 DEF IpsFormats
    <3> QED  BY <3>2, <3>3 DEF LaidSpoiled, LaidResult
  <2>3. CASE job.fmt = "xpc"
    BY <2>3, Begins DEF XpcInit, LaidSpoiled, LaidResult, IpsFormats
  <2>4. CASE job.fmt = "apsn64"
    BY <2>4, Begins DEF N64Init, LaidSpoiled, LaidResult, IpsFormats
  <2> QED  BY <2>1, <2>2, <2>3, <2>4 DEF Listed
<1> QED  BY <1>2 DEF R!RInit, LaidSpoiled, LaidResult

(* IPS, IPS32, APS (N64) and XPC lay the records of the patch over the ROM   *)
(* in order; success means all of them; a failure leaves a prefix, with at   *)
(* most its last record damaged and never a byte outside the records: for    *)
(* records of any number and length, and a cut at any byte.                  *)
THEOREM LaysRecords == Spec => LaidOver
  BY CallAlways, LaysStarts, LaysStep, PTL DEF Spec, LaidOver, R!RSpec
=============================================================================
