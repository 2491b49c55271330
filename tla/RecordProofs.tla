---------------------------- MODULE RecordProofs ----------------------------
(* What the steps of DPS, IPS, IPS32, APS (N64), APS (GBA) and PPF keep, for *)
(* every list of records or chunks.  CallProofs draws the theorems from it.  *)
EXTENDS Formats, RebuildProofs

(* A read that two files can satisfy gives the same if one is the start of   *)
(* the other.                                                                *)
LEMMA PrefixSlice ==
    ASSUME NEW f \in File, NEW g \in File, IsPrefixOf(f, g), NEW k \in Nat, NEW n \in Nat, k + n <= Len(f)
    PROVE  Slice(f, k, n) = Slice(g, k, n)
<1>1. Len(f) \in Nat /\ Len(g) \in Nat /\ Len(f) <= Len(g)
  BY DEF File, IsPrefixOf
<1>2. k + n <= Len(g)
  BY <1>1
<1>3. /\ Slice(f, k, n) \in File /\ Len(Slice(f, k, n)) = n
      /\ Slice(g, k, n) \in File /\ Len(Slice(g, k, n)) = n
  BY <1>2, SliceFile
<1>4. ASSUME NEW i \in 1 .. n PROVE Slice(f, k, n)[i] = Slice(g, k, n)[i]
  <2>1. Slice(f, k, n)[i] = f[k + i] /\ Slice(g, k, n)[i] = g[k + i]
    BY <1>2, SliceBytes
  <2>2. k + i \in 1 .. Len(f)
    BY <1>1
  <2> QED  BY <2>1, <2>2 DEF IsPrefixOf
<1> QED  BY <1>3, <1>4, SameFile

(* A read behind the end of a file comes back short.                         *)
LEMMA ShortSlice ==
    ASSUME NEW f \in File, NEW k \in Nat, NEW n \in Nat, n > 0, k + n > Len(f)
    PROVE  /\ Slice(f, k, n) \in File /\ Len(Slice(f, k, n)) < n /\ (k >= Len(f) => Slice(f, k, n) = <<>>)
           /\ k <= Len(f) => Len(Slice(f, k, n)) = Len(f) - k
<1>1. Len(f) \in Nat
  BY DEF File
<1>2. Slice(f, k, n) = SubSeq(f, k + 1, Len(f))
  BY <1>1 DEF Slice
<1>3. SubSeq(f, k + 1, Len(f)) \in File
  BY <1>1, SubSeqProperties DEF File
<1>4. Len(SubSeq(f, k + 1, Len(f))) = IF k + 1 <= Len(f) THEN Len(f) - k ELSE 0
  BY <1>1, SubSeqProperties DEF File
<1>5. k >= Len(f) => SubSeq(f, k + 1, Len(f)) = <<>>
  BY <1>1, <1>3, <1>4, EmptySeq DEF File
<1> QED  BY <1>1, <1>2, <1>3, <1>4, <1>5

(* A part of what fits, fits.                                                *)
LEMMA Within == ASSUME NEW a \in Nat, NEW b \in Nat, NEW c \in Nat, NEW l \in Nat, a + b + c <= l
                PROVE  a + b \in Nat /\ a + b <= l /\ a + b + c <= l
  OBVIOUS

(* A format's calls are its own.                                             *)
LEMMA JobFormat == ASSUME NEW f \in AllFormats, NEW j \in Jobs(f)
                   PROVE  j.fmt = f /\ j.rom \in File /\ j.patch \in File /\ j.want \in File
                          /\ j.ignore \in BOOLEAN /\ j.whole \in BOOLEAN
  BY JobAssumption DEF IsJob

-----------------------------------------------------------------------------
(* DPS: between two turns of the loop the output is what the records so far  *)
(* make, and the turn that meets the end of the patch has flushed it all.    *)
DpsReady == \E n \in 0 .. Len(job.recs) : at = job.pos[n + 1] /\ out = job.layers[n + 1]
DpsIInv == /\ job \in Jobs("dps")
           /\ job.whole /\ pc = "dpspatch" => at = 0 /\ out = <<>> /\ loc = [feof |-> FALSE]
           /\ job.whole /\ pc = "record" =>
                /\ ret = IF job.unstable THEN -3 ELSE 0
                /\ ~loc.feof => DpsReady
                /\ loc.feof => out = job.want /\ disk = job.want
           /\ DpsExact

(* Bytes copied from a file that has them.                                   *)
LEMMA CopiedBytes ==
    ASSUME NEW f \in File, NEW d \in File, NEW k \in Nat, k + Len(d) <= Len(f),
           \A i \in 1 .. Len(d) : d[i] = f[k + i]
    PROVE  Copied(f, k, Len(d)) = d
<1>1. Len(f) \in Nat /\ Len(d) \in Nat
  BY DEF File
<1>2. \A i \in 1 .. Len(d) : Copied(f, k, Len(d))[i] = d[i]
  BY <1>1 DEF Copied
<1>3. d = [i \in 1 .. Len(d) |-> d[i]]
  BY DEF File
<1>4. Copied(f, k, Len(d)) = [i \in 1 .. Len(d) |-> Copied(f, k, Len(d))[i]]
  BY DEF Copied
<1> QED  BY <1>2, <1>3, <1>4

(* What the stream of an intact DPS patch holds behind record n.             *)
DpsHolds(n, r, p) ==
    /\ r.mode = ENCLOSED_DATA => /\ Field(p) = {Len(r.data)} /\ job.pos[n + 2] = p + FieldLen + Len(r.data)
                                 /\ Copied(job.patch, p + FieldLen, Len(r.data)) = r.data
    /\ r.mode = COPY_DATA => /\ Field(p) = {r.x} /\ Field(p + FieldLen) = {Len(r.data)}
                             /\ job.pos[n + 2] = p + 2 * FieldLen
                             /\ Copied(job.rom, r.x, Len(r.data)) = r.data
LEMMA DpsNextRecord ==
    ASSUME job \in Jobs("dps"), job.whole, NEW n \in 0 .. (Len(job.recs) - 1), NEW r, r = job.recs[n + 1],
           NEW p, p = job.pos[n + 1] + 1 + FieldLen
    PROVE  /\ job.pos[n + 1] \in Nat /\ r \in DpsRecords /\ p \in Nat
           /\ job.pos[n + 1] < Len(job.patch) /\ p <= Len(job.patch)
           /\ job.patch[job.pos[n + 1] + 1] = r.mode /\ Field(job.pos[n + 1] + 1) = {r.offset}
           /\ job.layers[n + 2] = Put(job.layers[n + 1], r.offset, r.data)
           /\ job.pos[n + 2] <= Len(job.patch)
           /\ DpsHolds(n, r, p)
<1>1. DpsMade(job) /\ FieldLen \in 1 .. 4 /\ job.rom \in File /\ job.patch \in File
  BY DpsAssumption, JobFormat DEF AllFormats
<1>2. job.recs \in Seq(DpsRecords) /\ Laid(job, <<>>) /\ Len(job.recs) \in Nat /\ Len(job.patch) \in Nat
  BY <1>1 DEF DpsMade, File
<1>3. n + 1 \in 1 .. Len(job.recs) /\ n + 1 \in 1 .. (Len(job.recs) + 1) /\ n + 2 \in 1 .. (Len(job.recs) + 1)
      /\ n + 1 + 1 = n + 2
  BY <1>2
<1>4. r \in DpsRecords /\ job.pos[n + 1] \in Nat /\ job.pos[n + 2] \in Nat
  <2>1. r \in DpsRecords
    BY <1>2, <1>3
  <2>2. job.pos \in [1 .. (Len(job.recs) + 1) -> Nat]
    BY <1>2 DEF Laid
  <2> QED  BY <1>3, <2>1, <2>2
<1>5. job.layers[n + 2] = Put(job.layers[n + 1], r.offset, r.data)
  BY <1>2, <1>3 DEF Laid
<1>6. r.data \in File /\ Len(r.data) \in Nat /\ r.x \in Nat /\ r.mode \in {ENCLOSED_DATA, COPY_DATA} /\ r.offset \in Nat
  BY <1>4, SMTT(30), ZenonT(30) DEF DpsRecords, File
<1>7. /\ job.pos[n + 2] <= Len(job.patch)
      /\ job.patch[job.pos[n + 1] + 1] = r.mode /\ LE(Slice(job.patch, job.pos[n + 1] + 1, FieldLen)) = r.offset
  BY <1>1, <1>3 DEF DpsMade
<1>8. ENCLOSED_DATA # COPY_DATA
  BY DEF ENCLOSED_DATA, COPY_DATA
<1>e. r.mode = ENCLOSED_DATA => job.pos[n + 2] = p + FieldLen + Len(r.data)
  BY <1>1, <1>3, <1>8 DEF DpsMade
<1>f. r.mode = ENCLOSED_DATA => /\ LE(Slice(job.patch, p, FieldLen)) = Len(r.data)
                                /\ \A i \in 1 .. Len(r.data) : r.data[i] = job.patch[p + FieldLen + i]
  BY <1>1, <1>3, <1>8 DEF DpsMade
<1>g. r.mode = COPY_DATA => job.pos[n + 2] = p + 2 * FieldLen /\ r.x + Len(r.data) <= Len(job.rom)
  BY <1>1, <1>3, <1>8 DEF DpsMade
<1>h. r.mode = COPY_DATA => /\ LE(Slice(job.patch, p, FieldLen)) = r.x
                            /\ LE(Slice(job.patch, p + FieldLen, FieldLen)) = Len(r.data)
                            /\ \A i \in 1 .. Len(r.data) : r.data[i] = job.rom[r.x + i]
  BY <1>1, <1>3, <1>8 DEF DpsMade
<1>t. FieldLen \in Nat /\ p \in Nat
  BY <1>1, <1>4, SMTT(30), ZenonT(30)
<1>d. PICK d \in Nat : job.pos[n + 2] = p + d
  <2>1. CASE r.mode = ENCLOSED_DATA
    <3>1. PICK l \in Nat : l = Len(r.data)
      BY <1>6
    <3>2. PICK w \in Nat : w = FieldLen
      BY <1>t
    <3>3. PICK q \in Nat : q = p
      BY <1>t
    <3>4. w + l \in Nat /\ q + w + l = q + (w + l)
      OBVIOUS
    <3> QED  BY <1>e, <2>1, <3>1, <3>2, <3>3, <3>4
  <2>2. CASE r.mode = COPY_DATA
    <3>1. 2 * FieldLen \in Nat
      BY <1>t
    <3> QED  BY <1>g, <2>2, <3>1
  <2> QED  BY <1>6, <2>1, <2>2
<1>9. p \in Nat /\ p <= Len(job.patch) /\ job.pos[n + 1] < Len(job.patch)
  <2>1. p \in Nat /\ job.pos[n + 1] < p
    BY <1>1, <1>4, SMTT(30), ZenonT(30)
  <2>2. p + d <= Len(job.patch)
    BY <1>7, <1>d
  <2> QED  BY <1>2, <1>4, <2>1, <2>2, SMTT(30), ZenonT(30)
<1>10. \A k \in Nat : k + FieldLen <= Len(job.patch) => Field(k) = {LE(Slice(job.patch, k, FieldLen))}
  <2> TAKE k \in Nat
  <2> HAVE k + FieldLen <= Len(job.patch)
  <2>1. Len(Slice(job.patch, k, FieldLen)) = FieldLen
    BY <1>1, SliceFile
  <2> QED  BY <2>1 DEF Field
<1>11. Field(job.pos[n + 1] + 1) = {r.offset}
  <2>1. job.pos[n + 1] + 1 \in Nat /\ job.pos[n + 1] + 1 + FieldLen <= Len(job.patch)
    BY <1>1, <1>4, <1>9, SMTT(30), ZenonT(30)
  <2> QED  BY <1>7, <1>10, <2>1
<1>12. ASSUME r.mode = ENCLOSED_DATA
       PROVE  /\ Field(p) = {Len(r.data)} /\ job.pos[n + 2] = p + FieldLen + Len(r.data)
              /\ Copied(job.patch, p + FieldLen, Len(r.data)) = r.data
  <2>1. /\ LE(Slice(job.patch, p, FieldLen)) = Len(r.data)
        /\ \A i \in 1 .. Len(r.data) : r.data[i] = job.patch[p + FieldLen + i]
    BY <1>f, <1>12
  <2>2. p + FieldLen \in Nat /\ p + FieldLen <= Len(job.patch) /\ p + FieldLen + Len(r.data) <= Len(job.patch)
    <3>1. p + FieldLen + Len(r.data) <= Len(job.patch)
      BY <1>7, <1>e, <1>12
    <3> QED  BY <1>2, <1>6, <1>9, <1>t, <3>1, Within
  <2>3. Field(p) = {Len(r.data)}
    BY <1>9, <1>10, <2>1, <2>2
  <2> QED  BY <1>1, <1>6, <1>e, <1>12, <2>1, <2>2, <2>3, CopiedBytes, ZenonT(40), SMTT(30)
<1>13. ASSUME r.mode = COPY_DATA
       PROVE  /\ Field(p) = {r.x} /\ Field(p + FieldLen) = {Len(r.data)} /\ job.pos[n + 2] = p + 2 * FieldLen
              /\ Copied(job.rom, r.x, Len(r.data)) = r.data
  <2>1. /\ LE(Slice(job.patch, p, FieldLen)) = r.x /\ LE(Slice(job.patch, p + FieldLen, FieldLen)) = Len(r.data)
        /\ \A i \in 1 .. Len(r.data) : r.data[i] = job.rom[r.x + i]
    BY <1>h, <1>13
  <2>2. /\ p + FieldLen \in Nat /\ p + FieldLen <= Len(job.patch)
        /\ p + FieldLen + FieldLen <= Len(job.patch)
    <3>1. p + 2 * FieldLen <= Len(job.patch)
      BY <1>7, <1>g, <1>13
    <3>2. p + FieldLen + FieldLen <= Len(job.patch)
      BY <1>9, <1>t, <3>1
    <3> QED  BY <1>2, <1>9, <1>t, <3>2, Within
  <2>3. Field(p) = {r.x} /\ Field(p + FieldLen) = {Len(r.data)}
    BY <1>9, <1>10, <2>1, <2>2
  <2>4. Copied(job.rom, r.x, Len(r.data)) = r.data
    <3>1. r.x + Len(r.data) <= Len(job.rom)
      BY <1>g, <1>13
    <3>2. PICK dd \in File : dd = r.data
      BY <1>6
    <3>3. PICK f \in File : f = job.rom
      BY <1>1
    <3>4. PICK k \in Nat : k = r.x
      BY <1>6
    <3>5. k + Len(dd) <= Len(f) /\ \A i \in 1 .. Len(dd) : dd[i] = f[k + i]
      BY <2>1, <3>1, <3>2, <3>3, <3>4
    <3>6. Copied(f, k, Len(dd)) = dd
      BY <3>5, CopiedBytes
    <3> QED  BY <3>2, <3>3, <3>4, <3>6
  <2> QED  BY <1>g, <1>13, <2>3, <2>4
<1> QED  BY <1>4, <1>5, <1>7, <1>9, <1>11, <1>12, <1>13 DEF DpsHolds

(* One turn of the loop lays the next record over the output, or meets the   *)
(* end of the patch behind the last one.                                     *)
LEMMA DpsTurn ==
    ASSUME job \in Jobs("dps"), job.whole, DpsReady, ~loc.feof, DpsRecord
    PROVE  (~loc'.feof /\ DpsReady') \/ (loc'.feof /\ out' = job.want /\ disk' = job.want)
<1>1. PICK n \in 0 .. Len(job.recs) : at = job.pos[n + 1] /\ out = job.layers[n + 1]
  BY DEF DpsReady
<1>2. DpsMade(job) /\ FieldLen \in Nat /\ Base \in Nat /\ Base > 2 /\ job.patch \in File
  BY DpsAssumption, BaseAssumption, JobFormat DEF AllFormats
<1>3. Len(job.recs) \in Nat /\ Len(job.patch) \in Nat
  BY <1>2 DEF DpsMade, File
<1>j. job' = job /\ disk' = out
  BY DEF DpsRecord
<1>4. CASE n = Len(job.recs)
  <2>1. at = Len(job.patch) /\ out = job.want
    BY <1>1, <1>2, <1>4 DEF DpsMade, Laid
  <2>2. Base - 1 \notin {ENCLOSED_DATA, COPY_DATA} /\ ~(at < Len(job.patch))
    BY <1>2, <1>3, <2>1 DEF ENCLOSED_DATA, COPY_DATA
  <2>3. out' = out /\ loc' = [feof |-> Ends(at + 1 + FieldLen)]
    BY <2>2 DEF DpsRecord
  <2>4. Ends(at + 1 + FieldLen)
    BY <1>2, <1>3, <2>1 DEF Ends
  <2> QED  BY <1>j, <2>1, <2>3, <2>4
<1>5. CASE n # Len(job.recs)
  <2>1. n \in 0 .. (Len(job.recs) - 1)
    BY <1>3, <1>5
  <2>2. PICK r, p : r = job.recs[n + 1] /\ p = job.pos[n + 1] + 1 + FieldLen
    OBVIOUS
  <2>p. p = at + 1 + FieldLen
    BY <1>1, <2>2
  <2>3. /\ job.pos[n + 1] \in Nat /\ r \in DpsRecords /\ p \in Nat /\ job.pos[n + 1] < Len(job.patch) /\ p <= Len(job.patch)
        /\ job.patch[job.pos[n + 1] + 1] = r.mode /\ Field(job.pos[n + 1] + 1) = {r.offset}
        /\ job.layers[n + 2] = Put(job.layers[n + 1], r.offset, r.data)
        /\ job.pos[n + 2] <= Len(job.patch)
    BY <1>1, <2>1, <2>2, DpsNextRecord
  <2>h. DpsHolds(n, r, p)
    BY <2>1, <2>2, DpsNextRecord
  <2>6. ENCLOSED_DATA # COPY_DATA /\ r.mode \in {ENCLOSED_DATA, COPY_DATA}
    BY <2>3 DEF DpsRecords, ENCLOSED_DATA, COPY_DATA
  <2>7. at < Len(job.patch) /\ job.patch[at + 1] = r.mode /\ Field(at + 1) = {r.offset}
    BY <1>1, <2>3
  <2>8. Ends(job.pos[n + 2]) = FALSE /\ Stop(job.pos[n + 2]) = job.pos[n + 2]
    <3>1. job.pos[n + 2] \in Nat
      <4>1. n + 2 \in 1 .. (Len(job.recs) + 1)
        BY <1>3, <2>1
      <4> QED  BY <1>2, <4>1 DEF DpsMade, Laid
    <3> QED  BY <1>3, <2>3, <3>1 DEF Ends, Stop
  <2>m. (IF at < Len(job.patch) THEN job.patch[at + 1] ELSE Base - 1) = r.mode
    BY <2>7
  <2>x. PICK offset \in Field(at + 1), x \in Field(p), y \in Field(p + FieldLen) :
          \/ /\ r.mode = ENCLOSED_DATA
             /\ out' = Put(out, offset, Copied(job.patch, p + FieldLen, x))
             /\ loc' = [feof |-> Ends(p + FieldLen + x)] /\ at' = Stop(p + FieldLen + x)
          \/ /\ r.mode = COPY_DATA
             /\ out' = Put(out, offset, Copied(job.rom, x, y))
             /\ loc' = [feof |-> Ends(p + 2 * FieldLen)] /\ at' = Stop(p + 2 * FieldLen)
          \/ r.mode \notin {ENCLOSED_DATA, COPY_DATA}
    BY <2>m, <2>p, Zenon DEF DpsRecord
  <2>9. out' = Put(out, r.offset, r.data) /\ loc' = [feof |-> FALSE] /\ at' = job.pos[n + 2]
    <3>1. CASE r.mode = ENCLOSED_DATA
      <4>1. /\ out' = Put(out, offset, Copied(job.patch, p + FieldLen, x))
            /\ loc' = [feof |-> Ends(p + FieldLen + x)] /\ at' = Stop(p + FieldLen + x)
        BY <2>6, <2>x, <3>1, Zenon
      <4>2. /\ Field(p) = {Len(r.data)} /\ job.pos[n + 2] = p + FieldLen + Len(r.data)
            /\ Copied(job.patch, p + FieldLen, Len(r.data)) = r.data
        BY <2>h, <3>1, Zenon DEF DpsHolds
      <4>3. offset = r.offset /\ x = Len(r.data)
        BY <2>7, <2>x, <4>2
      <4> QED  BY <2>8, <4>1, <4>2, <4>3
    <3>2. CASE r.mode = COPY_DATA
      <4>1. /\ out' = Put(out, offset, Copied(job.rom, x, y))
            /\ loc' = [feof |-> Ends(p + 2 * FieldLen)] /\ at' = Stop(p + 2 * FieldLen)
        BY <2>6, <2>x, <3>2, Zenon
      <4>2. /\ Field(p) = {r.x} /\ Field(p + FieldLen) = {Len(r.data)}
            /\ job.pos[n + 2] = p + 2 * FieldLen /\ Copied(job.rom, r.x, Len(r.data)) = r.data
        BY <2>h, <3>2, Zenon DEF DpsHolds
      <4>3. offset = r.offset /\ x = r.x /\ y = Len(r.data)
        BY <2>7, <2>x, <4>2
      <4> QED  BY <2>8, <4>1, <4>2, <4>3
    <3> QED  BY <2>6, <3>1, <3>2
  <2>10. n + 1 \in 0 .. Len(job'.recs) /\ at' = job'.pos[(n + 1) + 1] /\ out' = job'.layers[(n + 1) + 1]
    <3>1. (n + 1) + 1 = n + 2 /\ n + 1 \in 0 .. Len(job.recs)
      BY <1>3, <2>1
    <3> QED  BY <1>1, <1>j, <2>3, <2>9, <3>1
  <2> QED  BY <2>9, <2>10 DEF DpsReady
<1> QED  BY <1>4, <1>5

(* Each step of dpspatch.                                                    *)
LEMMA DpsStep == DpsIInv /\ [DpsNext \/ Done]_vars => DpsIInv'
<1> SUFFICES ASSUME DpsIInv, [DpsNext \/ Done]_vars PROVE DpsIInv'
  OBVIOUS
<1>0. job' = job /\ job \in Jobs("dps")
  BY DEF DpsIInv, DpsNext, dpspatch, DpsRecord, DpsFinish, Done, vars
<1>1. CASE dpspatch
  <2>1. pc = "dpspatch" /\ UNCHANGED <<job, out, at, loc>>
    BY <1>1 DEF dpspatch
  <2>2. CASE pc' = "done"
    BY <1>0, <1>1, <2>2 DEF dpspatch, Close, Abandon, DpsIInv, DpsExact
  <2>3. CASE pc' = "record"
    <3>1. ret' = IF job.unstable THEN -3 ELSE 0
      BY <1>1, <2>3 DEF dpspatch, Close, Abandon
    <3>2. job.whole => DpsReady' /\ ~loc'.feof
      <4> SUFFICES ASSUME job.whole PROVE DpsReady' /\ ~loc'.feof
        OBVIOUS
      <4>1. at = 0 /\ out = <<>> /\ loc = [feof |-> FALSE]
        BY <2>1 DEF DpsIInv
      <4>2. job.pos[0 + 1] = 0 /\ job.layers[0 + 1] = <<>> /\ 0 \in 0 .. Len(job.recs)
        <5>1. DpsMade(job)
          BY <1>0, DpsAssumption
        <5> QED  BY <5>1 DEF DpsMade, Laid
      <4> QED  BY <2>1, <4>1, <4>2 DEF DpsReady
    <3> QED  BY <1>0, <2>3, <3>1, <3>2 DEF DpsIInv, DpsExact
  <2> QED  BY <1>1, <2>2, <2>3 DEF dpspatch, Close, Abandon
<1>2. CASE DpsRecord
  <2>1. pc = "record" /\ pc' = "record" /\ ret' = ret /\ ~loc.feof
    BY <1>2 DEF DpsRecord
  <2>2. job.whole => (~loc'.feof /\ DpsReady') \/ (loc'.feof /\ out' = job.want /\ disk' = job.want)
    BY <1>0, <1>2, <2>1, DpsTurn DEF DpsIInv
  <2> QED  BY <1>0, <2>1, <2>2 DEF DpsIInv, DpsExact
<1>3. CASE DpsFinish
  BY <1>0, <1>3 DEF DpsFinish, Abandon, DpsIInv, DpsExact
<1>4. CASE Done \/ UNCHANGED vars
  BY <1>0, <1>4 DEF Done, vars, DpsIInv, DpsExact, DpsReady
<1> QED  BY <1>1, <1>2, <1>3, <1>4 DEF DpsNext

-----------------------------------------------------------------------------
(* What Put makes of a file: the data in its place, what was there around    *)
(* it, and zeros in a gap.                                                   *)
LEMMA PutBytes ==
    ASSUME NEW f \in File, NEW k \in Nat, NEW d \in File, d # <<>>
    PROVE  /\ Put(f, k, d) \in File
           /\ Len(Put(f, k, d)) = IF k + Len(d) < Len(f) THEN Len(f) ELSE k + Len(d)
           /\ \A i \in 1 .. Len(Put(f, k, d)) :
                Put(f, k, d)[i] = IF k < i /\ i <= k + Len(d) THEN d[i - k] ELSE IF i <= Len(f) THEN f[i] ELSE 0
<1>1. Len(f) \in Nat /\ Len(d) \in Nat
  BY DEF File
<1>2. PICK h \in Nat : h = IF k > Len(f) THEN Len(f) ELSE k
  BY <1>1
<1>3. PICK a : a = Slice(f, 0, h)
  OBVIOUS
<1>4. a \in File /\ Len(a) = h /\ \A i \in 1 .. h : a[i] = f[i]
  <2>1. h <= Len(f) /\ 0 + h = h
    BY <1>1, <1>2
  <2>2. a \in File /\ Len(a) = h
    BY <1>1, <1>3, <2>1, SliceFile
  <2>3. \A i \in 1 .. h : a[i] = f[0 + i]
    BY <1>1, <1>3, <2>1, SliceBytes
  <2> QED  BY <2>2, <2>3
<1>5. Slice(f, 0, k) = a
  BY <1>1, <1>2, <1>3 DEF Slice
<1>6. PICK z \in Nat : z = IF k > Len(f) THEN k - Len(f) ELSE 0
  BY <1>1
<1>7. PICK b : b = Fill(z, 0)
  OBVIOUS
<1>8. b \in File /\ Len(b) = z /\ \A i \in 1 .. z : b[i] = 0
  BY <1>7, BaseAssumption DEF Fill, File, Byte
<1>9. PICK e : e = SubSeq(f, k + Len(d) + 1, Len(f))
  OBVIOUS
<1>10. PICK y \in Nat : y = IF k + Len(d) < Len(f) THEN Len(f) - (k + Len(d)) ELSE 0
  <2>1. k + Len(d) < Len(f) => Len(f) - (k + Len(d)) \in Nat
    BY <1>1
  <2> QED  BY <2>1, Zenon
<1>11. e \in File /\ Len(e) = y /\ \A i \in 1 .. y : e[i] = f[k + Len(d) + i]
  <2>1. e \in Seq(Byte) /\ Len(e) = IF k + Len(d) + 1 <= Len(f) THEN Len(f) - (k + Len(d) + 1) + 1 ELSE 0
    BY <1>1, <1>9, SubSeqProperties DEF File
  <2>2. Len(e) = y
    BY <1>1, <1>10, <2>1
  <2>3. \A i \in 1 .. y : e[i] = f[k + Len(d) + i]
    <3> TAKE i \in 1 .. y
    <3>1. i \in 1 .. (Len(f) - (k + Len(d) + 1) + 1) /\ (k + Len(d) + 1) + i - 1 = k + Len(d) + i
      BY <1>1, <1>10
    <3>2. \A j \in (k + Len(d) + 1) .. Len(f) : f[j] \in Byte
      BY <1>1, FileBytes
    <3>3. e[i] = f[(k + Len(d) + 1) + i - 1]
      BY <1>1, <1>9, <3>1, <3>2, SubSeqProperties
    <3> QED  BY <3>1, <3>3
  <2> QED  BY <2>1, <2>2, <2>3 DEF File
<1>12. Put(f, k, d) = ((a \o b) \o d) \o e
  BY <1>5, <1>6, <1>7, <1>9 DEF Put
<1>13. PICK ab : ab = a \o b
  OBVIOUS
<1>14. /\ ab \in File /\ Len(ab) = h + z
       /\ \A i \in 1 .. (h + z) : ab[i] = IF i <= h THEN a[i] ELSE b[i - h]
  BY <1>4, <1>8, <1>13, ConcatFile, ConcatBytes
<1>15. PICK abd : abd = ab \o d
  OBVIOUS
<1>16. /\ abd \in File /\ Len(abd) = h + z + Len(d)
       /\ \A i \in 1 .. (h + z + Len(d)) : abd[i] = IF i <= h + z THEN ab[i] ELSE d[i - (h + z)]
  <2>1. abd \in File /\ Len(abd) = Len(ab) + Len(d)
    BY <1>14, <1>15, ConcatFile
  <2>2. \A i \in 1 .. (Len(ab) + Len(d)) : abd[i] = IF i <= Len(ab) THEN ab[i] ELSE d[i - Len(ab)]
    BY <1>14, <1>15, ConcatBytes
  <2> QED  BY <1>14, <2>1, <2>2
<1>17. /\ Put(f, k, d) \in File /\ Len(Put(f, k, d)) = h + z + Len(d) + y
       /\ \A i \in 1 .. (h + z + Len(d) + y) :
            Put(f, k, d)[i] = IF i <= h + z + Len(d) THEN abd[i] ELSE e[i - (h + z + Len(d))]
  <2>1. Put(f, k, d) = abd \o e
    BY <1>12, <1>13, <1>15
  <2>2. abd \o e \in File /\ Len(abd \o e) = Len(abd) + Len(e)
    BY <1>11, <1>16, ConcatFile
  <2>3. \A i \in 1 .. (Len(abd) + Len(e)) : (abd \o e)[i] = IF i <= Len(abd) THEN abd[i] ELSE e[i - Len(abd)]
    BY <1>11, <1>16, ConcatBytes
  <2> QED  BY <1>11, <1>16, <2>1, <2>2, <2>3
<1>18. h + z = k
  BY <1>1, <1>2, <1>6
<1>19. Len(Put(f, k, d)) = IF k + Len(d) < Len(f) THEN Len(f) ELSE k + Len(d)
  <2>1. PICK l \in Nat : l = Len(f)
    BY <1>1
  <2>2. PICK m \in Nat : m = Len(d)
    BY <1>1
  <2>3. Len(Put(f, k, d)) = k + m + y /\ y = IF k + m < l THEN l - (k + m) ELSE 0
    BY <1>10, <1>17, <1>18, <2>1, <2>2
  <2>4. k + m + y = IF k + m < l THEN l ELSE k + m
    BY <2>3
  <2> QED  BY <2>1, <2>2, <2>3, <2>4, Zenon
<1>20. ASSUME NEW i \in 1 .. Len(Put(f, k, d))
       PROVE  Put(f, k, d)[i] = IF k < i /\ i <= k + Len(d) THEN d[i - k] ELSE IF i <= Len(f) THEN f[i] ELSE 0
  <2>1. i \in 1 .. (k + Len(d) + y) /\ Put(f, k, d)[i] = IF i <= k + Len(d) THEN abd[i] ELSE e[i - (k + Len(d))]
    BY <1>17, <1>18
  <2>2. CASE i <= k
    <3>1. Put(f, k, d)[i] = ab[i]
      BY <1>1, <1>16, <1>18, <2>1, <2>2
    <3>2. CASE i <= h
      BY <1>1, <1>2, <1>4, <1>14, <1>18, <2>1, <2>2, <3>1, <3>2
    <3>3. CASE i > h
      <4>1. i - h \in 1 .. z /\ i \in 1 .. (h + z) /\ ~(i <= h)
        BY <1>18, <2>1, <2>2, <3>3
      <4>2. ab[i] = 0
        BY <1>8, <1>14, <4>1
      <4>3. ~(i <= Len(f)) /\ ~(k < i)
        BY <1>1, <1>2, <2>1, <2>2, <3>3
      <4> QED  BY <3>1, <4>2, <4>3
    <3> QED  BY <2>1, <3>2, <3>3
  <2>3. CASE k < i /\ i <= k + Len(d)
    BY <1>1, <1>16, <1>18, <2>1, <2>3
  <2>4. CASE i > k + Len(d)
    <3>1. i - (k + Len(d)) \in 1 .. y /\ k + Len(d) + (i - (k + Len(d))) = i
      BY <1>1, <2>1, <2>4
    <3>2. Put(f, k, d)[i] = f[i]
      BY <1>1, <1>11, <2>1, <2>4, <3>1
    <3>3. i <= Len(f)
      BY <1>1, <1>10, <2>1, <2>4
    <3> QED  BY <1>1, <2>1, <2>4, <3>2, <3>3
  <2> QED  BY <1>1, <2>1, <2>2, <2>3, <2>4
<1> QED  BY <1>17, <1>19, <1>20

-----------------------------------------------------------------------------
(* APS (N64): between two turns of the loop n records are laid over the      *)
(* resized ROM, and the stream is at the next one.                           *)
N64Ready == /\ loc.n \in 0 .. Len(job.recs)
            /\ at = job.pos[loc.n + 1] /\ out = job.layers[loc.n + 1]
N64IInv == /\ job \in Jobs("apsn64")
           /\ job.whole => loc.Force = ~job.again /\ loc.Buffer \in File /\ Len(loc.Buffer) = Base - 1
           /\ pc \in {"ReadHeaders", "ReadSizeHeader"} => at = 0 /\ out = job.rom /\ loc.n = 0
           /\ job.whole /\ pc = "ReadPatch" => N64Ready /\ at > 0
           /\ N64Exact

(* Laying data over a file does not shorten it.                              *)
LEMMA PutGrows == ASSUME NEW f \in File, NEW k \in Nat, NEW d \in File
                  PROVE  Put(f, k, d) \in File /\ Len(Put(f, k, d)) >= Len(f) /\ Len(f) \in Nat
<1>1. Len(f) \in Nat /\ Len(d) \in Nat
  BY DEF File
<1>2. CASE d = <<>>
  BY <1>1, <1>2 DEF Put
<1>3. CASE d # <<>>
  BY <1>1, <1>3, PutBytes
<1> QED  BY <1>2, <1>3

(* A byte that the stream has is read.                                       *)
LEMMA OneByte ==
    ASSUME NEW f \in File, NEW k \in Nat, k + 1 <= Len(f), NEW old, NEW x \in Into(old, Slice(f, k, 1), 1)
    PROVE  x[1] = f[k + 1]
<1>1. Slice(f, k, 1) \in File /\ Len(Slice(f, k, 1)) = 1 /\ Slice(f, k, 1)[1] = f[k + 1]
  <2>1. 1 \in Nat /\ 1 \in 1 .. 1
    OBVIOUS
  <2> QED  BY <2>1, SliceFile, SliceBytes
<1>2. PICK s : s = Slice(f, k, 1)
  OBVIOUS
<1>3. x = SubSeq(s, 1, 1)
  BY <1>1, <1>2 DEF Into
<1>4. SubSeq(s, 1, 1)[1] = s[1]
  BY <1>1, <1>2 DEF File
<1> QED  BY <1>1, <1>2, <1>3, <1>4

(* A buffer that was read into starts with what was read.                    *)
LEMMA BufferStart ==
    ASSUME NEW f \in File, NEW d \in File, d # <<>>, Len(d) <= Len(f)
    PROVE  SubSeq(Put(f, 0, d), 1, Len(d)) = d /\ Put(f, 0, d) \in File /\ Len(Put(f, 0, d)) = Len(f)
<1>1. Len(f) \in Nat /\ Len(d) \in Nat /\ 0 + Len(d) = Len(d)
  BY DEF File
<1>2. PICK g : g = Put(f, 0, d)
  OBVIOUS
<1>3. /\ g \in File /\ Len(g) = IF 0 + Len(d) < Len(f) THEN Len(f) ELSE 0 + Len(d)
      /\ \A i \in 1 .. Len(g) : g[i] = IF 0 < i /\ i <= 0 + Len(d) THEN d[i - 0] ELSE IF i <= Len(f) THEN f[i] ELSE 0
  BY <1>2, PutBytes
<1>4. Len(g) = Len(f)
  BY <1>1, <1>3
<1>5. \A i \in 1 .. Len(d) : g[i] = d[i]
  BY <1>1, <1>3, <1>4
<1>6. SubSeq(g, 1, Len(d)) \in File /\ Len(SubSeq(g, 1, Len(d))) = Len(d)
      /\ \A i \in 1 .. Len(d) : SubSeq(g, 1, Len(d))[i] = g[i]
  BY <1>1, <1>3, <1>4 DEF File
<1>7. SubSeq(g, 1, Len(d)) = d
  BY <1>5, <1>6, SameFile
<1> QED  BY <1>2, <1>3, <1>4, <1>7

(* What the stream of an intact APS (N64) patch holds behind record n.       *)
N64Holds(n, r, p) ==
    /\ ~r.rle => /\ job.patch[p] = Len(r.data) /\ r.data # <<>> /\ job.pos[n + 2] = p + Len(r.data)
                 /\ \A i \in 1 .. Len(r.data) : r.data[i] = job.patch[p + i]
    /\ r.rle => /\ job.patch[p] = 0 /\ job.patch[p + 2] = Len(r.data) /\ job.pos[n + 2] = p + 2
                /\ \A i \in 1 .. Len(r.data) : r.data[i] = job.patch[p + 1]
LEMMA N64NextRecord ==
    ASSUME job \in Jobs("apsn64"), job.whole, NEW n \in 0 .. (Len(job.recs) - 1), NEW r, r = job.recs[n + 1],
           NEW p, p = job.pos[n + 1] + LongLen + 1
    PROVE  /\ job.pos[n + 1] \in Nat /\ job.pos[n + 2] \in Nat /\ r \in N64Records /\ p \in Nat
           /\ p <= job.pos[n + 2] /\ job.pos[n + 2] <= Len(job.patch)
           /\ LE(Slice(job.patch, job.pos[n + 1], LongLen)) = r.offset
           /\ job.layers[n + 2] = Put(job.layers[n + 1], r.offset, r.data)
           /\ N64Holds(n, r, p)
<1>1. N64Made(job) /\ LongLen \in 1 .. 4 /\ LongLen \in Nat /\ job.patch \in File
  BY N64Assumption, JobFormat DEF AllFormats
<1>2. /\ job.recs \in Seq(N64Records) /\ Len(job.recs) \in Nat /\ Len(job.patch) \in Nat
      /\ job.pos \in [1 .. (Len(job.recs) + 1) -> Nat]
      /\ \A k \in 1 .. Len(job.recs) : job.layers[k + 1] = Put(job.layers[k], job.recs[k].offset, job.recs[k].data)
  <2>1. job.recs \in Seq(N64Records)
        /\ Laid(job, [i \in 1 .. job.size |-> IF i <= Len(job.rom) THEN job.rom[i] ELSE 0])
    BY <1>1, Zenon DEF N64Made
  <2>2. /\ job.pos \in [1 .. (Len(job.recs) + 1) -> Nat]
        /\ \A k \in 1 .. Len(job.recs) : job.layers[k + 1] = Put(job.layers[k], job.recs[k].offset, job.recs[k].data)
    BY <2>1, Zenon DEF Laid
  <2>3. Len(job.recs) \in Nat /\ Len(job.patch) \in Nat
    BY <1>1, <2>1 DEF File
  <2> QED  BY <2>1, <2>2, <2>3
<1>3. n + 1 \in 1 .. Len(job.recs) /\ n + 1 \in 1 .. (Len(job.recs) + 1) /\ n + 2 \in 1 .. (Len(job.recs) + 1)
      /\ n + 1 + 1 = n + 2
  BY <1>2
<1>4. job.pos[n + 1] \in Nat /\ job.pos[n + 2] \in Nat
  BY <1>2, <1>3
<1>5. r \in N64Records
  BY <1>2, <1>3
<1>6. job.layers[n + 2] = Put(job.layers[n + 1], r.offset, r.data)
  BY <1>2, <1>3
<1>7. job.pos[n + 2] <= Len(job.patch) /\ LE(Slice(job.patch, job.pos[n + 1], LongLen)) = r.offset
  BY <1>1, <1>3 DEF N64Made
<1>8. N64Holds(n, r, p)
  <2>1. \/ /\ ~r.rle /\ job.patch[p] = Len(r.data) /\ r.data # <<>> /\ job.pos[n + 2] = p + Len(r.data)
           /\ \A i \in 1 .. Len(r.data) : r.data[i] = job.patch[p + i]
        \/ /\ r.rle /\ job.patch[p] = 0 /\ job.patch[p + 2] = Len(r.data) /\ job.pos[n + 2] = p + 2
           /\ \A i \in 1 .. Len(r.data) : r.data[i] = job.patch[p + 1]
    BY <1>1, <1>3, ZenonT(40), SMTT(30) DEF N64Made
  <2> QED  BY <2>1, Zenon DEF N64Holds
<1>9. p \in Nat /\ Len(r.data) \in Nat /\ r.rle \in BOOLEAN
  BY <1>1, <1>4, <1>5, SMTT(30), ZenonT(30) DEF N64Records, File
<1>10. p <= job.pos[n + 2]
  <2>1. job.pos[n + 2] = p + Len(r.data) \/ job.pos[n + 2] = p + 2
    BY <1>8, <1>9 DEF N64Holds
  <2> QED  BY <1>9, <2>1
<1> QED  BY <1>4, <1>5, <1>6, <1>7, <1>8, <1>9, <1>10

(* One turn of the loop lays the next record over the ROM, and the loop ends *)
(* behind the last one.                                                      *)
LEMMA N64Turn ==
    ASSUME N64IInv, job.whole, ReadPatch
    PROVE  \/ /\ loc.n < Len(job.recs) /\ pc' = "ReadPatch" /\ ret' = ret /\ loc'.n = loc.n + 1
              /\ out' = Put(out, job.recs[loc.n + 1].offset, job.recs[loc.n + 1].data) /\ N64Ready'
              /\ loc'.Force = loc.Force /\ loc'.Buffer \in File /\ Len(loc'.Buffer) = Base - 1 /\ at' > 0
           \/ /\ loc.n = Len(job.recs) /\ pc' = "done" /\ ret' = 0 /\ disk' = out /\ out = job.want
              /\ UNCHANGED <<out, at, loc>>
<1>1. /\ loc.n \in 0 .. Len(job.recs) /\ at = job.pos[loc.n + 1] /\ out = job.layers[loc.n + 1]
      /\ pc = "ReadPatch" /\ job \in Jobs("apsn64") /\ loc.Buffer \in File /\ Len(loc.Buffer) = Base - 1 /\ job' = job
  BY DEF N64IInv, N64Ready, ReadPatch
<1>2. N64Made(job) /\ LongLen \in Nat /\ LongLen > 0 /\ Base \in Nat /\ Base > 1 /\ job.patch \in File /\ Len(job.patch) \in Nat
      /\ Len(job.recs) \in Nat
  <2>1. N64Made(job) /\ LongLen \in 1 .. 4 /\ job.patch \in File
    BY <1>1, N64Assumption, JobFormat DEF AllFormats
  <2>2. job.recs \in Seq(N64Records)
    BY <2>1 DEF N64Made
  <2> QED  BY <2>1, <2>2, BaseAssumption DEF File
<1>3. CASE loc.n = Len(job.recs)
  <2>1. at = Len(job.patch) /\ out = job.want
    BY <1>1, <1>2, <1>3 DEF N64Made, Laid
  <2>2. Len(Slice(job.patch, at, LongLen)) < LongLen
    <3>1. at \in Nat /\ at + LongLen > Len(job.patch)
      BY <1>2, <2>1
    <3> QED  BY <1>2, <3>1, ShortSlice
  <2>3. ~(Len(Slice(job.patch, at, LongLen)) = LongLen)
    BY <1>2, <2>2
  <2> QED  BY <1>3, <2>1, <2>2, <2>3 DEF ReadPatch, Close
<1>4. CASE loc.n # Len(job.recs)
  <2>0. loc.n \in 0 .. (Len(job.recs) - 1) /\ loc.n < Len(job.recs) /\ loc.n \in Nat
    BY <1>1, <1>2, <1>4
  <2>1. PICK r, p : r = job.recs[loc.n + 1] /\ p = job.pos[loc.n + 1] + LongLen + 1
    OBVIOUS
  <2>2. /\ at \in Nat /\ job.pos[loc.n + 2] \in Nat /\ r \in N64Records /\ p \in Nat
        /\ p <= job.pos[loc.n + 2] /\ job.pos[loc.n + 2] <= Len(job.patch)
        /\ LE(Slice(job.patch, at, LongLen)) = r.offset
        /\ job.layers[loc.n + 2] = Put(out, r.offset, r.data)
        /\ N64Holds(loc.n, r, p)
    BY <1>1, <2>0, <2>1, N64NextRecord
  <2>3. p = at + LongLen + 1 /\ p <= Len(job.patch) /\ at + LongLen + 1 <= Len(job.patch)
        /\ at + LongLen \in Nat /\ at + LongLen <= Len(job.patch) /\ at + LongLen + 1 \in Nat
    <3>1. p = at + LongLen + 1
      BY <1>1, <2>1
    <3>2. p <= Len(job.patch)
      BY <1>2, <2>2
    <3> QED  BY <1>2, <2>2, <3>1, <3>2
  <2>4. Len(Slice(job.patch, at, LongLen)) = LongLen /\ ~(LongLen < LongLen)
    BY <1>2, <2>2, <2>3, SliceFile
  <2>5. r.data \in File /\ Len(r.data) \in Nat /\ r.rle \in BOOLEAN
    BY <2>2 DEF N64Records, File
  <2>6. PICK size \in Into(loc.Size, Slice(job.patch, at + LongLen, 1), 1) :
          \/ LET got == Slice(job.patch, at + LongLen + 1, size[1])
                 buffer == Put(loc.Buffer, 0, got)
             IN /\ size[1] # 0
                /\ out' = Put(out, LE(Slice(job.patch, at, LongLen)), SubSeq(buffer, 1, size[1]))
                /\ loc' = [loc EXCEPT !.Size = size, !.Buffer = buffer, !.n = @ + 1]
                /\ at' = at + LongLen + Len(Slice(job.patch, at + LongLen, 1)) + Len(got)
          \/ \E data \in Into(<<>>, Slice(job.patch, at + LongLen + 1, 1), 1),
                len \in Into(<<>>, Slice(job.patch, at + LongLen + 1 + 1, 1), 1) :
               /\ size[1] = 0
               /\ out' = Put(out, LE(Slice(job.patch, at, LongLen)), Fill(len[1], data[1]))
               /\ loc' = [loc EXCEPT !.Size = size, !.n = @ + 1]
               /\ at' = at + LongLen + Len(Slice(job.patch, at + LongLen, 3))
    BY <2>4, Zenon DEF ReadPatch
  <2>7. size[1] = job.patch[p]
    BY <1>2, <2>3, <2>6, OneByte
  <2>8. UNCHANGED <<pc, ret>>
    BY <2>4 DEF ReadPatch
  <2>9. /\ out' = Put(out, r.offset, r.data) /\ at' = job.pos[loc.n + 2]
        /\ loc'.n = loc.n + 1 /\ loc'.Force = loc.Force /\ loc'.Buffer \in File /\ Len(loc'.Buffer) = Base - 1
    <3>1. CASE ~r.rle
      <4>1. /\ size[1] = Len(r.data) /\ r.data # <<>> /\ job.pos[loc.n + 2] = p + Len(r.data)
            /\ \A i \in 1 .. Len(r.data) : r.data[i] = job.patch[p + i]
        BY <2>2, <2>7, <3>1 DEF N64Holds
      <4>2. Len(r.data) # 0
        BY <2>5, <4>1 DEF File
      <4>3. PICK got, buffer : got = Slice(job.patch, at + LongLen + 1, size[1]) /\ buffer = Put(loc.Buffer, 0, got)
        OBVIOUS
      <4>4. /\ out' = Put(out, LE(Slice(job.patch, at, LongLen)), SubSeq(buffer, 1, size[1]))
            /\ loc' = [loc EXCEPT !.Size = size, !.Buffer = buffer, !.n = @ + 1]
            /\ at' = at + LongLen + Len(Slice(job.patch, at + LongLen, 1)) + Len(got)
        BY <2>6, <4>1, <4>2, <4>3
      <4>5. got = r.data
        <5>1. p + Len(r.data) <= Len(job.patch)
          BY <2>2, <4>1
        <5>2. got \in File /\ Len(got) = Len(r.data) /\ \A i \in 1 .. Len(r.data) : got[i] = job.patch[p + i]
          <6>1. got = Slice(job.patch, p, Len(r.data))
            BY <2>3, <4>1, <4>3
          <6> QED  BY <1>2, <2>2, <2>5, <5>1, <6>1, SliceFile, SliceBytes, SMTT(30), ZenonT(30)
        <5> QED  BY <2>5, <4>1, <5>2, SameFile
      <4>6. Len(r.data) <= Len(loc.Buffer)
        <5>1. p \in 1 .. Len(job.patch)
          BY <1>2, <2>2, <2>3
        <5>2. job.patch[p] \in Byte
          BY <1>2, <5>1, FileBytes
        <5> QED  BY <1>1, <1>2, <2>5, <2>7, <4>1, <5>2 DEF Byte
      <4>7. SubSeq(buffer, 1, Len(r.data)) = r.data /\ buffer \in File /\ Len(buffer) = Base - 1
        BY <1>1, <2>5, <4>1, <4>3, <4>5, <4>6, BufferStart
      <4>8. Len(Slice(job.patch, at + LongLen, 1)) = 1
        BY <1>2, <2>3, SliceFile
      <4>9. at' = job.pos[loc.n + 2]
        <5>1. at' = at + LongLen + 1 + Len(r.data)
          BY <4>4, <4>5, <4>8
        <5> QED  BY <2>3, <4>1, <5>1
      <4>10. loc'.n = loc.n + 1 /\ loc'.Force = loc.Force /\ loc'.Buffer = buffer
        BY <4>4 DEF N64IInv
      <4> QED  BY <2>2, <4>1, <4>4, <4>7, <4>9, <4>10
    <3>2. CASE r.rle
      <4>1. /\ size[1] = 0 /\ job.patch[p + 2] = Len(r.data) /\ job.pos[loc.n + 2] = p + 2
            /\ \A i \in 1 .. Len(r.data) : r.data[i] = job.patch[p + 1]
        BY <2>2, <2>7, <3>2 DEF N64Holds
      <4>2. PICK data \in Into(<<>>, Slice(job.patch, at + LongLen + 1, 1), 1),
                 len \in Into(<<>>, Slice(job.patch, at + LongLen + 1 + 1, 1), 1) :
              /\ out' = Put(out, LE(Slice(job.patch, at, LongLen)), Fill(len[1], data[1]))
              /\ loc' = [loc EXCEPT !.Size = size, !.n = @ + 1]
              /\ at' = at + LongLen + Len(Slice(job.patch, at + LongLen, 3))
        BY <2>6, <4>1, Zenon
      <4>3. p + 2 <= Len(job.patch)
        BY <2>2, <4>1
      <4>4. data[1] = job.patch[p + 1]
        <5>1. at + LongLen + 1 + 1 <= Len(job.patch)
          BY <1>2, <2>2, <2>3, <4>3
        <5> QED  BY <1>2, <2>3, <4>2, <5>1, OneByte
      <4>5. len[1] = job.patch[p + 2]
        <5>1. at + LongLen + 1 + 1 \in Nat /\ at + LongLen + 1 + 1 + 1 = p + 2
          BY <1>2, <2>2, <2>3
        <5> QED  BY <1>2, <4>2, <4>3, <5>1, OneByte
      <4>6. Fill(len[1], data[1]) = r.data
        <5>1. \A i \in 1 .. Len(r.data) : r.data[i] = data[1]
          BY <4>1, <4>4
        <5>2. r.data = [i \in 1 .. Len(r.data) |-> r.data[i]]
          BY <2>5 DEF File
        <5> QED  BY <4>1, <4>5, <5>1, <5>2 DEF Fill
      <4>7. Len(Slice(job.patch, at + LongLen, 3)) = 3
        <5>1. at + LongLen + 3 <= Len(job.patch)
          BY <1>2, <2>2, <2>3, <4>3
        <5> QED  BY <1>2, <2>3, <5>1, SliceFile
      <4>8. at' = job.pos[loc.n + 2]
        <5>1. at' = at + LongLen + 3
          BY <4>2, <4>7
        <5>2. at + LongLen + 3 = (at + LongLen + 1) + 2
          BY <1>2, <2>2
        <5> QED  BY <2>3, <4>1, <5>1, <5>2
      <4>9. loc'.n = loc.n + 1 /\ loc'.Force = loc.Force /\ loc'.Buffer = loc.Buffer
        BY <4>2 DEF N64IInv
      <4> QED  BY <1>1, <2>2, <4>2, <4>6, <4>8, <4>9
    <3> QED  BY <2>5, <3>1, <3>2
  <2>10. N64Ready' /\ at' > 0
    <3>1. loc.n + 1 + 1 = loc.n + 2 /\ loc.n + 1 \in 0 .. Len(job.recs)
      BY <1>2, <2>0
    <3>2. at' > 0
      BY <1>2, <2>2, <2>3, <2>9
    <3> QED  BY <1>1, <2>2, <2>9, <3>1, <3>2 DEF N64Ready
  <2> QED  BY <1>1, <2>0, <2>1, <2>8, <2>9, <2>10
<1> QED  BY <1>3, <1>4

(* The resized ROM is what the first record is laid over.                    *)
LEMMA N64Resize ==
    ASSUME N64IInv, job.whole, ReadSizeHeader
    PROVE  /\ pc' = "ReadPatch" /\ UNCHANGED <<job, loc, ret>> /\ at' > 0
           /\ out' = Resized /\ N64Ready'
<1>1. job \in Jobs("apsn64") /\ pc = "ReadSizeHeader" /\ out = job.rom /\ loc.n = 0
  BY DEF N64IInv, ReadSizeHeader
<1>2. N64Made(job) /\ LongLen \in Nat /\ LongLen > 0 /\ job.patch \in File
  BY <1>1, N64Assumption, JobFormat DEF AllFormats
<1>3. PICK s \in Into(<<>>, Slice(job.patch, 0, LongLen), LongLen) : out' = Sized(LE(s))
  BY DEF ReadSizeHeader
<1>4. Slice(job.patch, 0, LongLen) \in File /\ Len(Slice(job.patch, 0, LongLen)) = LongLen
  <2>1. 0 + LongLen <= Len(job.patch)
    BY <1>2 DEF N64Made
  <2> QED  BY <1>2, <2>1, SliceFile
<1>5. s = Slice(job.patch, 0, LongLen)
  <2>1. PICK f : f = Slice(job.patch, 0, LongLen)
    OBVIOUS
  <2>2. s = SubSeq(f, 1, LongLen)
    <3>1. Len(f) >= LongLen
      BY <1>2, <1>4, <2>1
    <3> QED  BY <1>3, <2>1, <3>1 DEF Into
  <2>3. SubSeq(f, 1, LongLen) = f
    BY <1>2, <1>4, <2>1 DEF File
  <2> QED  BY <2>1, <2>2, <2>3
<1>6. LE(s) = job.size /\ job.layers[1] = Resized /\ job.pos[1] = LongLen /\ 0 \in 0 .. Len(job.recs)
  <2>1. job.recs \in Seq(N64Records)
    BY <1>2 DEF N64Made
  <2>2. Len(job.recs) \in Nat
    BY <2>1
  <2>3. LE(s) = job.size /\ job.layers[1] = Resized /\ job.pos[1] = LongLen
    BY <1>2, <1>5 DEF N64Made, Laid, Resized
  <2> QED  BY <2>2, <2>3
<1>7. out' = Resized
  BY <1>1, <1>3, <1>6 DEF Sized, Resized
<1>8. at' = LongLen
  BY <1>4 DEF ReadSizeHeader
<1>9. pc' = "ReadPatch" /\ UNCHANGED <<job, loc, ret>>
  BY DEF ReadSizeHeader
<1>10. N64Ready'
  <2>1. loc'.n = 0 /\ job' = job /\ 0 + 1 = 1
    BY <1>1, <1>9
  <2> QED  BY <1>6, <1>7, <1>8, <2>1 DEF N64Ready
<1> QED  BY <1>2, <1>7, <1>8, <1>9, <1>10

(* Each step of n64aps.                                                      *)
LEMMA N64Step == N64IInv /\ [N64Next \/ Done]_vars => N64IInv'
<1> SUFFICES ASSUME N64IInv, [N64Next \/ Done]_vars PROVE N64IInv'
  OBVIOUS
<1>0. /\ job' = job /\ job \in Jobs("apsn64")
      /\ job.whole => loc.Force = ~job.again /\ loc.Buffer \in File /\ Len(loc.Buffer) = Base - 1
  BY DEF N64IInv, N64Next, ReadHeaders, ReadSizeHeader, ReadPatch, Done, vars
<1>1. CASE ReadHeaders
  <2>1. pc = "ReadHeaders" /\ UNCHANGED <<job, out, at, loc>>
    BY <1>1 DEF ReadHeaders
  <2>2. CASE pc' = "done" /\ ret' = 1
    BY <1>0, <2>1, <2>2 DEF N64IInv, N64Exact
  <2>3. CASE pc' = "done" /\ (job.match = "wrong" \/ (job.match = "other" /\ ~loc.Force))
    <3>1. job.whole => ~(job.match = "same" \/ (job.match = "other" /\ ~job.again))
      BY <1>0, <2>3
    <3> QED  BY <1>0, <2>1, <2>3, <3>1 DEF N64IInv, N64Exact
  <2>4. CASE pc' = "ReadSizeHeader" /\ ret' = ret
    BY <1>0, <2>1, <2>4 DEF N64IInv, N64Exact
  <2> QED  BY <1>1, <2>2, <2>3, <2>4 DEF ReadHeaders, Close
<1>2. CASE ReadSizeHeader
  <2>1. pc' = "ReadPatch" /\ loc' = loc
    BY <1>2 DEF ReadSizeHeader
  <2>2. job.whole => N64Ready' /\ at' > 0
    BY <1>2, N64Resize
  <2> QED  BY <1>0, <2>1, <2>2 DEF N64IInv, N64Exact
<1>3. CASE ReadPatch
  <2>1. CASE job.whole
    <3>1. CASE pc' = "ReadPatch"
      BY <1>0, <1>3, <2>1, <3>1, N64Turn DEF N64IInv, N64Exact
    <3>2. CASE pc' = "done" /\ ret' = 0 /\ disk' = out /\ out = job.want /\ loc' = loc
      BY <1>0, <2>1, <3>2 DEF N64IInv, N64Exact
    <3> QED  BY <1>3, <2>1, <3>1, <3>2, N64Turn
  <2>2. CASE ~job.whole
    <3>1. CASE Close(0) /\ UNCHANGED <<out, at, loc>>
      BY <1>0, <2>2, <3>1 DEF N64IInv, N64Exact, Close
    <3>2. CASE pc' = pc
      BY <1>0, <1>3, <2>2, <3>2 DEF N64IInv, N64Exact, ReadPatch
    <3> QED  BY <1>3, <3>1, <3>2 DEF ReadPatch
  <2> QED  BY <2>1, <2>2
<1>4. CASE Done \/ UNCHANGED vars
  BY <1>0, <1>4 DEF Done, vars, N64IInv, N64Exact, N64Ready
<1> QED  BY <1>1, <1>2, <1>3, <1>4 DEF N64Next

-----------------------------------------------------------------------------
(* IPS: between two records either the stream is at record n + 1 and the     *)
(* records before it are laid over the ROM, or the patch was cut within      *)
(* record n and the stream is at its end.                                    *)
IpsReady == /\ loc.n \in 0 .. job.full /\ at = job.pos[loc.n + 1] /\ at <= Len(job.patch)
            /\ out = job.layers[loc.n + 1]
IpsSpoilt == loc.n = job.full + 1 /\ loc.n <= Len(job.recs) /\ ~job.whole /\ at = Len(job.patch)
\* The head of record n + 1 has been read.
IpsRead == LET r == job.recs[loc.n + 1] IN
           /\ loc.n \in 0 .. job.full /\ loc.n < Len(job.recs) /\ out = job.layers[loc.n + 1]
           /\ loc.offset = r.offset /\ loc.size = Len(r.data) /\ loc.rle = r.rle
           /\ r.rle => /\ loc.n + 1 <= job.full /\ at = job.pos[loc.n + 2]
                       /\ \A i \in 1 .. Len(r.data) : r.data[i] = loc.rleData
           /\ ~r.rle => at = job.pos[loc.n + 1] + OffLen(job.fmt) + SizeLen /\ at <= Len(job.patch)
IpsIInv == /\ job.fmt \in IpsFormats /\ job \in Jobs(job.fmt)
           /\ job.made /\ pc = "IPSOpen" => at = 0 /\ loc.n = 0 /\ out = job.rom
           /\ job.made /\ pc = "IPSReadRecord" => IpsReady \/ IpsSpoilt
           /\ job.made /\ pc = "IPSProcessRecord" => IpsRead
           /\ IpsExact /\ IpsCutFails

(* What the records of a patch are, and how far the file holds them.         *)
LEMMA IpsGiven ==
    ASSUME job.fmt \in IpsFormats, job \in Jobs(job.fmt), job.made
    PROVE  /\ IpsMade(job) /\ job.recs \in Seq(IpsRecords) /\ Len(job.recs) \in Nat
           /\ job.rom \in File /\ job.want \in File /\ job.whole \in BOOLEAN
           /\ job.patch \in File /\ Len(job.patch) \in Nat /\ job.all \in File /\ Len(job.all) \in Nat
           /\ IsPrefixOf(job.patch, job.all) /\ (job.whole <=> Len(job.patch) = Len(job.all))
           /\ job.full \in Nat /\ job.full <= Len(job.recs)
           /\ job.pos \in [1 .. (Len(job.recs) + 1) -> Nat]
           /\ OffLen(job.fmt) \in Nat /\ OffLen(job.fmt) > 0 /\ SizeLen \in Nat /\ SizeLen > 0
           /\ Len(Mark(job.fmt)) = OffLen(job.fmt)
<1>1. job.fmt \in AllFormats
  BY DEF IpsFormats, AllFormats
<1>2. IpsMade(job) /\ OffLen(job.fmt) \in 1 .. 4 /\ SizeLen \in 1 .. 4 /\ Mark(job.fmt) \in [1 .. OffLen(job.fmt) -> Byte]
  BY IpsAssumption
<1>3. job.rom \in File /\ job.want \in File /\ job.whole \in BOOLEAN /\ job.patch \in File
  BY <1>1, JobFormat
<1>4. /\ job.recs \in Seq(IpsRecords) /\ job.all \in File /\ IsPrefixOf(job.patch, job.all)
      /\ (job.whole <=> Len(job.patch) = Len(job.all)) /\ job.full \in 0 .. Len(job.recs)
      /\ job.pos \in [1 .. (Len(job.recs) + 1) -> Nat]
  BY <1>2 DEF IpsMade, IsPrefixOf, Laid
<1>5. Len(job.recs) \in Nat /\ Len(job.patch) \in Nat /\ Len(job.all) \in Nat
  BY <1>3, <1>4 DEF File
<1>6. Len(Mark(job.fmt)) = OffLen(job.fmt) /\ OffLen(job.fmt) \in Nat /\ OffLen(job.fmt) > 0
      /\ SizeLen \in Nat /\ SizeLen > 0
  BY <1>2
<1> QED  BY <1>2, <1>3, <1>4, <1>5, <1>6

(* What the stream as it was made holds behind record n.                     *)
IpsHolds(n, r, p) ==
    /\ ~r.rle => /\ BE(Slice(job.all, p - SizeLen, SizeLen)) = Len(r.data) /\ r.data # <<>>
                 /\ job.pos[n + 2] = p + Len(r.data)
                 /\ \A i \in 1 .. Len(r.data) : r.data[i] = job.all[p + i]
    /\ r.rle => /\ BE(Slice(job.all, p - SizeLen, SizeLen)) = 0 /\ BE(Slice(job.all, p, SizeLen)) = Len(r.data)
                /\ job.pos[n + 2] = p + SizeLen + 1
                /\ \A i \in 1 .. Len(r.data) : r.data[i] = job.all[p + SizeLen + 1]
LEMMA IpsNextRecord ==
    ASSUME job.fmt \in IpsFormats, job \in Jobs(job.fmt), job.made, NEW n \in 0 .. (Len(job.recs) - 1),
           NEW r, r = job.recs[n + 1], NEW p, p = job.pos[n + 1] + OffLen(job.fmt) + SizeLen
    PROVE  /\ job.pos[n + 1] \in Nat /\ job.pos[n + 2] \in Nat /\ r \in IpsRecords /\ p \in Nat
           /\ p <= job.pos[n + 2] /\ job.pos[n + 2] <= Len(job.all)
           /\ (n + 1 <= job.full <=> job.pos[n + 2] <= Len(job.patch))
           /\ Slice(job.all, job.pos[n + 1], OffLen(job.fmt)) # Mark(job.fmt)
           /\ BE(Slice(job.all, job.pos[n + 1], OffLen(job.fmt))) = r.offset
           /\ job.layers[n + 2] = Put(job.layers[n + 1], r.offset, r.data)
           /\ IpsHolds(n, r, p)
<1>1. IpsMade(job) /\ job.recs \in Seq(IpsRecords) /\ Len(job.recs) \in Nat /\ Laid(job, job.rom)
      /\ job.pos \in [1 .. (Len(job.recs) + 1) -> Nat] /\ OffLen(job.fmt) \in Nat /\ SizeLen \in Nat
  BY IpsGiven DEF IpsMade
<1>3. n + 1 \in 1 .. Len(job.recs) /\ n + 1 \in 1 .. (Len(job.recs) + 1) /\ n + 2 \in 1 .. (Len(job.recs) + 1)
      /\ n + 1 + 1 = n + 2
  BY <1>1, SMTT(30), ZenonT(30)
<1>4. job.pos[n + 1] \in Nat /\ job.pos[n + 2] \in Nat
  BY <1>1, <1>3
<1>5. r \in IpsRecords
  BY <1>1, <1>3
<1>6. job.layers[n + 2] = Put(job.layers[n + 1], r.offset, r.data)
  BY <1>1, <1>3 DEF Laid
<1>7. /\ job.pos[n + 2] <= Len(job.all) /\ Slice(job.all, job.pos[n + 1], OffLen(job.fmt)) # Mark(job.fmt)
      /\ BE(Slice(job.all, job.pos[n + 1], OffLen(job.fmt))) = r.offset
  BY <1>1, <1>3 DEF IpsMade
<1>f. n + 1 <= job.full <=> job.pos[n + 2] <= Len(job.patch)
  BY <1>1, <1>3 DEF IpsMade
<1>8. IpsHolds(n, r, p)
  <2>1. \/ /\ ~r.rle /\ BE(Slice(job.all, p - SizeLen, SizeLen)) = Len(r.data) /\ r.data # <<>>
           /\ job.pos[n + 2] = p + Len(r.data)
           /\ \A i \in 1 .. Len(r.data) : r.data[i] = job.all[p + i]
        \/ /\ r.rle /\ BE(Slice(job.all, p - SizeLen, SizeLen)) = 0 /\ BE(Slice(job.all, p, SizeLen)) = Len(r.data)
           /\ job.pos[n + 2] = p + SizeLen + 1
           /\ \A i \in 1 .. Len(r.data) : r.data[i] = job.all[p + SizeLen + 1]
    BY <1>1, <1>3, ZenonT(40), SMTT(30) DEF IpsMade
  <2> QED  BY <2>1, Zenon DEF IpsHolds
<1>9. p \in Nat /\ Len(r.data) \in Nat /\ r.rle \in BOOLEAN
  <2>1. p \in Nat
    BY <1>1, <1>4, SMTT(30), ZenonT(30)
  <2>2. r.data \in File /\ r.rle \in BOOLEAN
    BY <1>5 DEF IpsRecords
  <2> QED  BY <2>1, <2>2 DEF File
<1>10. p <= job.pos[n + 2]
  <2>1. job.pos[n + 2] = p + Len(r.data) \/ job.pos[n + 2] = p + SizeLen + 1
    BY <1>8, <1>9 DEF IpsHolds
  <2> QED  BY <1>1, <1>9, <2>1
<1> QED  BY <1>4, <1>5, <1>6, <1>7, <1>f, <1>8, <1>9, <1>10

(* Reading the head of the next record: behind the last one the mark ends    *)
(* the call; where the stream ends early the call fails; else the head is    *)
(* that of the record.                                                       *)
IpsFailed == pc' = "done" /\ ret' = -5 /\ ~job.whole /\ disk' = out /\ UNCHANGED loc
IpsFinished == /\ pc' = "done" /\ ret' = 0 /\ job.whole /\ disk' = out /\ out = job.want
               /\ IpsReady /\ loc.n = Len(job.recs) /\ UNCHANGED loc
LEMMA IpsReadStep ==
    ASSUME IpsIInv, job.made, IPSReadRecord
    PROVE  /\ UNCHANGED <<job, out>>
           /\ \/ IpsFailed
              \/ IpsFinished
              \/ pc' = "IPSProcessRecord" /\ ret' = ret /\ IpsReady /\ loc'.n = loc.n /\ IpsRead'
<1>1. job.fmt \in IpsFormats /\ job \in Jobs(job.fmt) /\ (IpsReady \/ IpsSpoilt) /\ UNCHANGED <<job, out>>
  BY DEF IpsIInv, IPSReadRecord
<1>2. /\ IpsMade(job) /\ job.recs \in Seq(IpsRecords) /\ Len(job.recs) \in Nat /\ job.whole \in BOOLEAN
      /\ job.patch \in File /\ Len(job.patch) \in Nat /\ job.all \in File /\ Len(job.all) \in Nat
      /\ IsPrefixOf(job.patch, job.all) /\ Len(job.patch) <= Len(job.all)
      /\ (job.whole <=> Len(job.patch) = Len(job.all))
      /\ job.full \in Nat /\ job.full <= Len(job.recs) /\ job.pos \in [1 .. (Len(job.recs) + 1) -> Nat]
      /\ SizeLen \in Nat /\ SizeLen > 0
  BY <1>1, IpsGiven DEF IsPrefixOf
<1>w. PICK w : w = OffLen(job.fmt)
  OBVIOUS
<1>3. w \in Nat /\ w > 0 /\ Len(Mark(job.fmt)) = w
  BY <1>1, <1>w, IpsGiven
<1>4. PICK o, s, q, d : /\ o = Slice(job.patch, at, w) /\ s = Slice(job.patch, at + w, SizeLen)
                        /\ q = Slice(job.patch, at + w + SizeLen, SizeLen)
                        /\ d = Slice(job.patch, at + w + SizeLen + SizeLen, 1)
  OBVIOUS
<1>5. PICK short \in BOOLEAN : short <=> Len(o) < w \/ Len(s) < SizeLen \/ (BE(s) = 0 /\ (Len(q) < SizeLen \/ d = <<>>))
  OBVIOUS
<1>6. \/ o = Mark(job.fmt) /\ Close(0) /\ UNCHANGED <<at, loc>>
      \/ o # Mark(job.fmt) /\ short /\ Close(-5) /\ UNCHANGED <<at, loc>>
      \/ /\ o # Mark(job.fmt) /\ ~short /\ BE(s) # 0
         /\ loc' = [loc EXCEPT !.offset = BE(o), !.size = BE(s), !.rle = FALSE]
         /\ at' = at + w + SizeLen /\ pc' = "IPSProcessRecord" /\ UNCHANGED <<ret, disk>>
      \/ /\ o # Mark(job.fmt) /\ ~short /\ BE(s) = 0
         /\ loc' = [loc EXCEPT !.offset = BE(o), !.size = BE(q), !.rle = TRUE, !.rleData = d[1]]
         /\ at' = at + w + SizeLen + SizeLen + 1 /\ pc' = "IPSProcessRecord" /\ UNCHANGED <<ret, disk>>
  BY <1>w, <1>4, <1>5 DEF IPSReadRecord, IpsEnded
<1>7. ASSUME at \in Nat, ~job.whole, o # Mark(job.fmt), short PROVE IpsFailed
  BY <1>6, <1>7 DEF IpsFailed, Close
<1>8. ASSUME at \in Nat, ~job.whole, Len(job.patch) < at + w PROVE IpsFailed
  <2>1. Len(o) < w /\ o # Mark(job.fmt)
    BY <1>2, <1>3, <1>4, <1>8, ShortSlice
  <2> QED  BY <1>5, <1>7, <1>8, <2>1
<1>9. CASE IpsSpoilt
  <2>1. at \in Nat /\ ~job.whole /\ Len(job.patch) < at + w
    BY <1>2, <1>3, <1>9 DEF IpsSpoilt
  <2> QED  BY <1>1, <1>8, <2>1
<1>10. CASE IpsReady /\ loc.n = Len(job.recs)
  <2>1. at \in Nat /\ Len(job.all) = at + w /\ Slice(job.all, at, w) = Mark(job.fmt) /\ out = job.want
    <3>1. at = job.pos[Len(job.recs) + 1] /\ out = job.layers[Len(job.recs) + 1]
      BY <1>10 DEF IpsReady
    <3>2. Len(job.recs) + 1 \in 1 .. (Len(job.recs) + 1)
      BY <1>2
    <3>3. at \in Nat
      BY <1>2, <3>1, <3>2
    <3>4. Len(job.all) = at + w /\ Slice(job.all, at, w) = Mark(job.fmt) /\ out = job.want
      BY <1>2, <1>w, <3>1 DEF IpsMade, Laid
    <3> QED  BY <3>3, <3>4
  <2>2. CASE job.whole
    <3>1. o = Mark(job.fmt)
      <4>1. at + w <= Len(job.patch)
        BY <1>2, <2>1, <2>2
      <4> QED  BY <1>2, <1>3, <1>4, <2>1, <4>1, PrefixSlice, SMTT(30), ZenonT(30)
    <3>2. pc' = "done" /\ ret' = 0 /\ disk' = out /\ loc' = loc
      BY <1>6, <3>1 DEF Close
    <3>3. IpsFinished
      BY <1>10, <2>1, <2>2, <3>2 DEF IpsFinished
    <3> QED  BY <1>1, <3>3
  <2>3. CASE ~job.whole
    <3>1. Len(job.patch) < at + w
      BY <1>2, <1>3, <2>1, <2>3
    <3> QED  BY <1>1, <1>8, <2>1, <2>3, <3>1
  <2> QED  BY <1>2, <2>2, <2>3
<1>11. CASE IpsReady /\ loc.n # Len(job.recs)
  <2>0. loc.n \in 0 .. (Len(job.recs) - 1) /\ loc.n < Len(job.recs) /\ loc.n \in Nat
    BY <1>2, <1>11 DEF IpsReady
  <2>1. PICK r, p : r = job.recs[loc.n + 1] /\ p = job.pos[loc.n + 1] + OffLen(job.fmt) + SizeLen
    OBVIOUS
  <2>2. at = job.pos[loc.n + 1]
    BY <1>11 DEF IpsReady
  <2>3. /\ at \in Nat /\ job.pos[loc.n + 2] \in Nat /\ r \in IpsRecords /\ p \in Nat
        /\ p <= job.pos[loc.n + 2] /\ job.pos[loc.n + 2] <= Len(job.all)
        /\ (loc.n + 1 <= job.full <=> job.pos[loc.n + 2] <= Len(job.patch))
        /\ Slice(job.all, at, w) # Mark(job.fmt)
        /\ BE(Slice(job.all, at, w)) = r.offset
        /\ IpsHolds(loc.n, r, p)
    BY <1>1, <1>w, <2>0, <2>1, <2>2, IpsNextRecord
  <2>4. p = at + w + SizeLen /\ p - SizeLen = at + w /\ at + w \in Nat
    BY <1>2, <1>3, <1>w, <2>1, <2>2, <2>3, SMTT(30), ZenonT(30)
  <2>5. r.data \in File /\ Len(r.data) \in Nat /\ r.rle \in BOOLEAN
    BY <2>3 DEF IpsRecords, File
  <2>6. CASE Len(job.patch) < p
    <3>1. ~job.whole
      BY <1>2, <2>3, <2>6
    <3>2. CASE Len(job.patch) < at + w
      BY <1>1, <1>8, <2>3, <3>1, <3>2
    <3>3. CASE at + w <= Len(job.patch)
      <4>1. o # Mark(job.fmt)
        BY <1>2, <1>3, <1>4, <2>3, <3>3, PrefixSlice, SMTT(30), ZenonT(30)
      <4>2. Len(s) < SizeLen
        <5>1. at + w + SizeLen > Len(job.patch)
          BY <1>2, <2>3, <2>4, <2>6
        <5> QED  BY <1>2, <1>4, <2>4, <5>1, ShortSlice
      <4> QED  BY <1>1, <1>5, <1>7, <2>3, <3>1, <4>1, <4>2
    <3> QED  BY <1>2, <2>4, <3>2, <3>3
  <2>7. CASE p <= Len(job.patch)
    <3>1. at + w <= Len(job.patch) /\ at + w + SizeLen <= Len(job.patch)
      BY <1>2, <2>4, <2>7
    <3>2. o = Slice(job.all, at, w) /\ Len(o) = w
      BY <1>2, <1>3, <1>4, <2>3, <3>1, PrefixSlice, SliceFile
    <3>3. s = Slice(job.all, p - SizeLen, SizeLen) /\ Len(s) = SizeLen
      BY <1>2, <1>4, <2>4, <3>1, PrefixSlice, SliceFile
    <3>4. o # Mark(job.fmt) /\ BE(o) = r.offset
      BY <2>3, <3>2
    <3>5. ~(Len(o) < w) /\ ~(Len(s) < SizeLen)
      BY <1>2, <1>3, <3>2, <3>3
    <3>6. loc.n \in 0 .. job.full /\ out = job.layers[loc.n + 1]
      BY <1>11 DEF IpsReady
    <3>7. CASE ~r.rle
      <4>1. BE(s) = Len(r.data) /\ BE(s) # 0
        <5>1. BE(s) = Len(r.data) /\ r.data # <<>>
          BY <2>3, <3>3, <3>7 DEF IpsHolds
        <5>2. Len(r.data) # 0
          BY <2>5, <5>1 DEF File
        <5> QED  BY <5>1, <5>2
      <4>2. ~short
        BY <1>5, <3>5, <4>1
      <4>3. /\ loc' = [loc EXCEPT !.offset = BE(o), !.size = BE(s), !.rle = FALSE]
            /\ at' = at + w + SizeLen /\ pc' = "IPSProcessRecord" /\ ret' = ret
        BY <1>6, <3>4, <4>1, <4>2
      <4>4. loc'.offset = r.offset /\ loc'.size = Len(r.data) /\ loc'.rle = FALSE /\ loc'.n = loc.n
        BY <3>4, <4>1, <4>3
      <4>5. IpsRead'
        BY <1>1, <1>w, <2>0, <2>1, <2>2, <2>4, <2>7, <3>6, <3>7, <4>3, <4>4, <2>5 DEF IpsRead
      <4> QED  BY <1>1, <1>11, <4>3, <4>4, <4>5
    <3>8. CASE r.rle
      <4>1. /\ BE(s) = 0 /\ BE(Slice(job.all, p, SizeLen)) = Len(r.data) /\ job.pos[loc.n + 2] = p + SizeLen + 1
            /\ \A i \in 1 .. Len(r.data) : r.data[i] = job.all[p + SizeLen + 1]
        BY <2>3, <3>3, <3>8 DEF IpsHolds
      <4>a. q = Slice(job.patch, p, SizeLen) /\ d = Slice(job.patch, p + SizeLen, 1) /\ p + SizeLen \in Nat
        BY <1>2, <1>4, <2>3, <2>4, SMTT(30), ZenonT(30)
      <4>2. CASE Len(job.patch) < p + SizeLen + 1
        <5>1. ~job.whole
          BY <1>2, <2>3, <4>1, <4>2
        <5>2. Len(q) < SizeLen \/ d = <<>>
          <6>1. CASE Len(job.patch) < p + SizeLen
            BY <1>2, <2>3, <4>a, <6>1, ShortSlice
          <6>2. CASE p + SizeLen >= Len(job.patch)
            <7>1. PICK e \in Nat : e = p + SizeLen
              BY <4>a
            <7>2. d = Slice(job.patch, e, 1) /\ e >= Len(job.patch) /\ e + 1 > Len(job.patch)
              BY <1>2, <4>a, <6>2, <7>1
            <7> QED  BY <1>2, <7>2, ShortSlice
          <6> QED  BY <1>2, <4>a, <4>2, <6>1, <6>2
        <5> QED  BY <1>1, <1>5, <1>7, <2>3, <3>4, <4>1, <5>1, <5>2
      <4>3. CASE p + SizeLen + 1 <= Len(job.patch)
        <5>1. q = Slice(job.all, p, SizeLen) /\ Len(q) = SizeLen
          <6>1. p + SizeLen <= Len(job.patch)
            BY <1>2, <4>a, <4>3
          <6> QED  BY <1>2, <2>3, <4>a, <6>1, PrefixSlice, SliceFile
        <5>2. Len(d) = 1 /\ d \in File /\ d[1] = job.all[p + SizeLen + 1]
          <6>1. d = Slice(job.all, p + SizeLen, 1) /\ Len(d) = 1 /\ d \in File
            <7>1. PICK e \in Nat : e = p + SizeLen
              BY <4>a
            <7>2. d = Slice(job.patch, e, 1) /\ e + 1 <= Len(job.patch)
              BY <4>a, <4>3, <7>1
            <7>3. d = Slice(job.all, e, 1)
              BY <1>2, <7>2, PrefixSlice
            <7>4. Len(d) = 1 /\ d \in File
              <8>0. job.patch \in File /\ 1 \in Nat
                BY <1>2
              <8>1. Slice(job.patch, e, 1) \in File /\ Len(Slice(job.patch, e, 1)) = 1
                BY <7>2, <8>0, SliceFile, Zenon
              <8> QED  BY <7>2, <8>1, Zenon
            <7> QED  BY <7>1, <7>3, <7>4
          <6>2. p + SizeLen + 1 <= Len(job.all) /\ 1 \in 1 .. 1
            BY <1>2, <2>3, <4>1
          <6> QED  BY <1>2, <4>a, <6>1, <6>2, SliceBytes
        <5>3. ~short
          <6>1. d # <<>>
            BY <5>2, EmptySeq, SMTT(30), ZenonT(30) DEF File
          <6>2. ~(Len(q) < SizeLen)
            BY <1>2, <5>1
          <6> QED  BY <1>5, <3>5, <6>1, <6>2
        <5>4. /\ loc' = [loc EXCEPT !.offset = BE(o), !.size = BE(q), !.rle = TRUE, !.rleData = d[1]]
              /\ at' = at + w + SizeLen + SizeLen + 1 /\ pc' = "IPSProcessRecord" /\ ret' = ret
          BY <1>6, <3>4, <4>1, <5>3
        <5>5. /\ loc'.offset = r.offset /\ loc'.size = Len(r.data) /\ loc'.rle = TRUE /\ loc'.n = loc.n
              /\ loc'.rleData = job.all[p + SizeLen + 1]
          BY <3>4, <4>1, <5>1, <5>2, <5>4
        <5>6. at' = job.pos[loc.n + 2] /\ loc.n + 1 <= job.full
          BY <2>3, <2>4, <4>1, <4>3, <5>4
        <5>7. IpsRead'
          BY <1>1, <2>0, <2>1, <2>5, <3>6, <3>8, <4>1, <5>5, <5>6, ZenonT(40), SMTT(30) DEF IpsRead
        <5> QED  BY <1>1, <1>11, <5>4, <5>5, <5>7
      <4> QED  BY <1>2, <4>a, <4>2, <4>3
    <3> QED  BY <2>5, <3>7, <3>8
  <2> QED  BY <1>2, <2>3, <2>6, <2>7
<1> QED  BY <1>1, <1>9, <1>10, <1>11

(* Writing a record: its data, or, where the patch was cut within it, as     *)
(* many bytes in their place.                                                *)
LEMMA IpsProcessStep ==
    ASSUME IpsIInv, job.made, IPSProcessRecord, NEW r, r = job.recs[loc.n + 1]
    PROVE  /\ pc' = "IPSReadRecord" /\ UNCHANGED <<job, ret>> /\ loc.n \in 0 .. job.full /\ loc.n < Len(job.recs)
           /\ loc'.n = loc.n + 1
           /\ \/ IpsReady' /\ loc.n + 1 <= job.full /\ out' = Put(out, r.offset, r.data)
              \/ IpsSpoilt' /\ \E d \in [1 .. Len(r.data) -> Byte] : out' = Put(out, r.offset, d)
<1>1. job.fmt \in IpsFormats /\ job \in Jobs(job.fmt) /\ IpsRead /\ pc' = "IPSReadRecord" /\ UNCHANGED <<job, ret>>
  BY DEF IpsIInv, IPSProcessRecord
<1>2. /\ Len(job.recs) \in Nat /\ job.patch \in File /\ Len(job.patch) \in Nat /\ job.all \in File
      /\ Len(job.all) \in Nat /\ IsPrefixOf(job.patch, job.all) /\ Len(job.patch) <= Len(job.all)
      /\ (job.whole <=> Len(job.patch) = Len(job.all)) /\ job.full \in Nat /\ job.full <= Len(job.recs)
  BY <1>1, IpsGiven DEF IsPrefixOf
<1>3. /\ loc.n \in 0 .. job.full /\ loc.n < Len(job.recs) /\ out = job.layers[loc.n + 1]
      /\ loc.offset = r.offset /\ loc.size = Len(r.data) /\ loc.rle = r.rle
      /\ r.rle => /\ loc.n + 1 <= job.full /\ at = job.pos[loc.n + 2]
                  /\ \A i \in 1 .. Len(r.data) : r.data[i] = loc.rleData
      /\ ~r.rle => at = job.pos[loc.n + 1] + OffLen(job.fmt) + SizeLen /\ at <= Len(job.patch)
  BY <1>1 DEF IpsRead
<1>4. loc'.n = loc.n + 1 /\ loc.n \in Nat /\ loc.n \in 0 .. (Len(job.recs) - 1)
      /\ loc.n + 1 \in 0 .. (job.full + 1) /\ loc.n + 1 + 1 = loc.n + 2
  <2>1. loc'.n = loc.n + 1
    BY DEF IPSProcessRecord
  <2> QED  BY <1>2, <1>3, <2>1
<1>5. PICK p : p = job.pos[loc.n + 1] + OffLen(job.fmt) + SizeLen
  OBVIOUS
<1>6. /\ job.pos[loc.n + 2] \in Nat /\ r \in IpsRecords /\ p \in Nat /\ job.pos[loc.n + 2] <= Len(job.all)
      /\ (loc.n + 1 <= job.full <=> job.pos[loc.n + 2] <= Len(job.patch))
      /\ job.layers[loc.n + 2] = Put(out, r.offset, r.data)
      /\ IpsHolds(loc.n, r, p)
  BY <1>1, <1>3, <1>4, <1>5, IpsNextRecord
<1>7. r.data \in File /\ Len(r.data) \in Nat /\ r.rle \in BOOLEAN /\ r.data = [i \in 1 .. Len(r.data) |-> r.data[i]]
  <2>1. r.data \in File /\ r.rle \in BOOLEAN
    BY <1>6 DEF IpsRecords
  <2> QED  BY <2>1 DEF File
<1>8. ASSUME out' = Put(out, r.offset, r.data), at' = job.pos[loc.n + 2], loc.n + 1 <= job.full
      PROVE  IpsReady'
  <2>1. loc.n + 1 \in 0 .. job.full
    BY <1>2, <1>4, <1>8
  <2> QED  BY <1>1, <1>4, <1>6, <1>8, <2>1 DEF IpsReady
<1>9. CASE r.rle
  <2>1. out' = Put(out, r.offset, Fill(Len(r.data), loc.rleData)) /\ at' = job.pos[loc.n + 2] /\ loc.n + 1 <= job.full
    BY <1>3, <1>9 DEF IPSProcessRecord
  <2>2. Fill(Len(r.data), loc.rleData) = r.data
    BY <1>3, <1>7, <1>9 DEF Fill
  <2> QED  BY <1>1, <1>3, <1>4, <1>8, <2>1, <2>2
<1>10. CASE ~r.rle
  <2>1. PICK got : got = Slice(job.patch, at, Len(r.data))
    OBVIOUS
  <2>2. PICK junk \in Byte : out' = Put(out, r.offset, IpsData(got, junk)) /\ at' = at + Len(got)
    BY <1>3, <1>10, <2>1 DEF IPSProcessRecord
  <2>3. PICK data : data = IpsData(got, junk)
    OBVIOUS
  <2>4. data = [k \in 1 .. Len(r.data) |-> IF k <= Len(got) THEN got[k]
                                           ELSE IF got # <<>> THEN got[Len(got)] ELSE junk]
    BY <1>3, <2>3 DEF IpsData
  <2>5. at = p /\ at \in Nat /\ at <= Len(job.patch) /\ job.pos[loc.n + 2] = at + Len(r.data)
        /\ Len(r.data) > 0 /\ \A i \in 1 .. Len(r.data) : r.data[i] = job.all[at + i]
    <3>1. at = p /\ at <= Len(job.patch)
      BY <1>3, <1>5, <1>10
    <3>2. job.pos[loc.n + 2] = p + Len(r.data) /\ r.data # <<>>
          /\ \A i \in 1 .. Len(r.data) : r.data[i] = job.all[p + i]
      BY <1>6, <1>10 DEF IpsHolds
    <3>3. Len(r.data) > 0
      BY <1>7, <3>2 DEF File
    <3> QED  BY <1>6, <3>1, <3>2, <3>3
  <2>6. CASE at + Len(r.data) <= Len(job.patch)
    <3>1. got \in File /\ Len(got) = Len(r.data) /\ \A i \in 1 .. Len(r.data) : got[i] = job.patch[at + i]
      <4>1. PICK m \in Nat : m = Len(r.data)
        BY <1>7
      <4>2. got = Slice(job.patch, at, m) /\ at + m <= Len(job.patch) /\ at \in Nat /\ job.patch \in File
        BY <1>2, <2>1, <2>5, <2>6, <4>1
      <4>3. got \in File /\ Len(got) = m
        BY <4>2, SliceFile
      <4>4. \A i \in 1 .. m : got[i] = job.patch[at + i]
        BY <4>2, SliceBytes
      <4> QED  BY <4>1, <4>3, <4>4
    <3>2. ASSUME NEW i \in 1 .. Len(r.data) PROVE got[i] = r.data[i] /\ i <= Len(got)
      <4>1. at + i \in 1 .. Len(job.patch) /\ i <= Len(got)
        BY <1>2, <1>7, <2>5, <2>6, <3>1, SMTT(30), ZenonT(30)
      <4> QED  BY <1>2, <2>5, <3>1, <4>1 DEF IsPrefixOf
    <3>3. data = r.data
      BY <1>7, <2>4, <3>2
    <3>4. at' = job.pos[loc.n + 2] /\ loc.n + 1 <= job.full
      BY <1>6, <2>2, <2>5, <2>6, <3>1
    <3> QED  BY <1>1, <1>3, <1>4, <1>8, <2>2, <2>3, <3>3, <3>4
  <2>7. CASE at + Len(r.data) > Len(job.patch)
    <3>1. got \in File /\ Len(got) = Len(job.patch) - at
      <4>1. PICK m \in Nat : m = Len(r.data)
        BY <1>7
      <4>2. got = Slice(job.patch, at, m) /\ at + m > Len(job.patch) /\ at \in Nat /\ job.patch \in File
            /\ m > 0 /\ at <= Len(job.patch)
        BY <1>2, <2>1, <2>5, <2>7, <4>1
      <4> QED  BY <4>2, ShortSlice
    <3>2. at' = Len(job.patch)
      BY <1>2, <2>2, <2>5, <3>1
    <3>3. loc.n = job.full /\ ~job.whole
      <4>1. job.pos[loc.n + 2] > Len(job.patch)
        BY <2>5, <2>7
      <4>2. ~(loc.n + 1 <= job.full)
        BY <1>2, <1>6, <4>1
      <4>3. loc.n = job.full
        BY <1>2, <1>3, <4>2
      <4>4. ~job.whole
        BY <1>2, <1>6, <4>1
      <4> QED  BY <4>3, <4>4
    <3>4. IpsSpoilt'
      BY <1>1, <1>2, <1>3, <1>4, <3>2, <3>3 DEF IpsSpoilt
    <3>5. data \in [1 .. Len(r.data) -> Byte]
      <4>1. Len(got) \in Nat
        BY <3>1 DEF File
      <4>2. ASSUME NEW k \in 1 .. Len(r.data), k <= Len(got) PROVE got[k] \in Byte
        <5>1. k \in 1 .. Len(got)
          BY <1>7, <4>1, <4>2
        <5> QED  BY <3>1, <5>1, FileBytes
      <4>3. got # <<>> => got[Len(got)] \in Byte
        <5>1. got # <<>> => Len(got) \in 1 .. Len(got)
          BY <3>1 DEF File
        <5> QED  BY <3>1, <5>1, FileBytes
      <4> QED  BY <2>4, <4>2, <4>3
    <3> QED  BY <1>1, <1>3, <1>4, <2>2, <2>3, <3>4, <3>5
  <2>8. at + Len(r.data) <= Len(job.patch) \/ at + Len(r.data) > Len(job.patch)
    <3>1. PICK m \in Nat : m = at + Len(r.data)
      BY <1>7, <2>5
    <3> QED  BY <1>2, <3>1
  <2> QED  BY <2>6, <2>7, <2>8, Zenon
<1> QED  BY <1>7, <1>9, <1>10

(* The first record lies at the start of the stream and over the ROM.        *)
LEMMA IpsOpened ==
    ASSUME IpsIInv, job.made, pc = "IPSOpen", UNCHANGED <<job, out, at, loc>>
    PROVE  IpsReady'
<1>1. at = 0 /\ loc.n = 0 /\ out = job.rom /\ job.fmt \in IpsFormats /\ job \in Jobs(job.fmt)
  BY DEF IpsIInv
<1>2. IpsMade(job) /\ job.full \in Nat /\ Len(job.patch) \in Nat
  BY <1>1, IpsGiven
<1>3. job.pos[1] = 0 /\ job.layers[1] = job.rom /\ 0 \in 0 .. job.full /\ 0 <= Len(job.patch) /\ 0 + 1 = 1
  BY <1>2 DEF IpsMade, Laid
<1> QED  BY <1>1, <1>3 DEF IpsReady

(* Each step of IPSPatch.                                                    *)
LEMMA IpsStep == IpsIInv /\ [IpsNext \/ Done]_vars => IpsIInv'
<1> SUFFICES ASSUME IpsIInv, [IpsNext \/ Done]_vars PROVE IpsIInv'
  OBVIOUS
<1>0. job' = job /\ job.fmt \in IpsFormats /\ job \in Jobs(job.fmt)
  BY DEF IpsIInv, IpsNext, IPSOpen, IPSReadRecord, IPSProcessRecord, Done, vars
<1>1. CASE IPSOpen
  <2>1. pc = "IPSOpen" /\ UNCHANGED <<job, out, at, loc>> /\ (job.made => IpsReady')
    BY <1>1, IpsOpened DEF IPSOpen
  <2>2. CASE pc' = "done" /\ ret' = -3
    BY <1>0, <2>1, <2>2 DEF IpsIInv, IpsExact, IpsCutFails
  <2>3. CASE pc' = "IPSReadRecord"
    BY <1>0, <2>1, <2>3 DEF IpsIInv, IpsExact, IpsCutFails
  <2> QED  BY <1>1, <2>2, <2>3 DEF IPSOpen, Close
<1>2. CASE IPSReadRecord
  <2>1. CASE job.made
    <3>1. CASE IpsFailed
      BY <1>0, <3>1 DEF IpsFailed, IpsIInv, IpsExact, IpsCutFails
    <3>2. CASE IpsFinished
      BY <1>0, <3>2 DEF IpsFinished, IpsIInv, IpsExact, IpsCutFails
    <3>3. CASE pc' = "IPSProcessRecord" /\ IpsRead'
      BY <1>0, <3>3 DEF IpsIInv, IpsExact, IpsCutFails
    <3> QED  BY <1>2, <2>1, <3>1, <3>2, <3>3, IpsReadStep
  <2>2. CASE ~job.made
    BY <1>0, <2>2 DEF IpsIInv, IpsExact, IpsCutFails
  <2> QED  BY <2>1, <2>2
<1>3. CASE IPSProcessRecord
  <2>1. pc' = "IPSReadRecord" /\ (job.made => (IpsReady \/ IpsSpoilt)')
    BY <1>3, IpsProcessStep DEF IPSProcessRecord
  <2> QED  BY <1>0, <2>1 DEF IpsIInv, IpsExact, IpsCutFails
<1>4. CASE Done \/ UNCHANGED vars
  BY <1>0, <1>4 DEF Done, vars, IpsIInv, IpsExact, IpsCutFails, IpsReady, IpsSpoilt, IpsRead
<1> QED  BY <1>1, <1>2, <1>3, <1>4 DEF IpsNext

-----------------------------------------------------------------------------
(* APS (GBA): what a call knows of its chunks and of what is left to read.   *)
GbaLeft(k) == Len(job.chunks) * (ChunkHead + lChunkBytes) - job.cut - k * (ChunkHead + lChunkBytes)
GbaType == /\ job \in Jobs("apsgba") /\ out \in File /\ at \in 0 .. Len(job.chunks)
           /\ loc.bByteArray1 \in [1 .. lChunkBytes -> Byte]
           /\ pc = "ApplyPatch" => out = job.rom /\ at = 0 /\ ~loc.fIsModified
           /\ pc = "chunk" => loc.lBytesLeft = GbaLeft(at) /\ Len(out) >= Len(job.rom)

\* An intact patch on the file it was made for, with all chunks but the last
\* within it: those behind are still the original's, those before are the
\* modified file's, and the last one was only written if it is all zeros.
GbaFor == /\ job.whole /\ job.rom = job.from /\ ~job.ignore /\ job.chunks # <<>>
          /\ \A k \in 1 .. (Len(job.chunks) - 1) : job.chunks[k].offset + lChunkBytes <= Len(job.rom)
GbaHalf == LET n == Len(job.chunks) IN
           /\ \A k \in 1 .. n : k > at => ChunkOf(out, job.chunks[k]) = job.chunks[k].crc1
           /\ \A k \in 1 .. n : k <= at /\ k < n => ChunkOf(out, job.chunks[k]) = job.chunks[k].crc2
           /\ at < n => ~loc.fIsModified
           /\ at = n => Fill(lChunkBytes, 0) \in {job.chunks[n].crc1, job.chunks[n].crc2}
GbaIInv == /\ GbaType /\ ApsGbaKnownChunks /\ ApsGbaLastChunk
           /\ GbaFor /\ pc = "chunk" => GbaHalf

(* What a call is given.                                                     *)
LEMMA GbaGiven ==
    ASSUME job \in Jobs("apsgba")
    PROVE  /\ GbaMade(job) /\ job.fmt = "apsgba" /\ job.rom \in File /\ Len(job.rom) \in Nat
           /\ job.chunks \in Seq(GbaChunks) /\ Len(job.chunks) \in Nat /\ job.cut \in Nat
           /\ lChunkBytes \in Nat /\ lChunkBytes > 0 /\ ChunkHead \in Nat
           /\ ChunkHead + lChunkBytes \in Nat /\ ChunkHead + lChunkBytes >= lChunkBytes
<1>1. GbaMade(job) /\ lChunkBytes \in Nat \ {0} /\ ChunkHead \in Nat
  BY ApsGbaAssumption
<1>2. job.fmt = "apsgba" /\ job.rom \in File
  BY JobFormat DEF AllFormats
<1>3. job.chunks \in Seq(GbaChunks) /\ job.cut \in Nat
  BY <1>1 DEF GbaMade
<1> QED  BY <1>1, <1>2, <1>3 DEF File

(* What a chunk is.                                                          *)
LEMMA GbaChunkIs ==
    ASSUME job \in Jobs("apsgba"), NEW k \in 1 .. Len(job.chunks), NEW c, c = job.chunks[k]
    PROVE  /\ c.offset \in Nat /\ c.data \in [1 .. lChunkBytes -> Byte]
           /\ c.crc1 \in [1 .. lChunkBytes -> Byte] /\ c.crc2 \in [1 .. lChunkBytes -> Byte]
           /\ job.whole => ChunkOf(job.from, c) = c.crc1
           /\ [i \in 1 .. lChunkBytes |-> Xor(c.crc1[i], c.data[i])] = c.crc2
           /\ [i \in 1 .. lChunkBytes |-> Xor(c.crc2[i], c.data[i])] = c.crc1
           /\ \A l \in 1 .. Len(job.chunks) : l # k => GbaApart(c, job.chunks[l])
<1>1. c \in GbaChunks
  BY GbaGiven, ElementOfSeq, Zenon
<1>2. c.offset \in Nat /\ c.data \in [1 .. lChunkBytes -> Byte]
      /\ c.crc1 \in [1 .. lChunkBytes -> Byte] /\ c.crc2 \in [1 .. lChunkBytes -> Byte]
  BY <1>1 DEF GbaChunks
<1>3. /\ job.whole => ChunkOf(job.from, c) = c.crc1
      /\ \A i \in 1 .. lChunkBytes : Xor(c.crc1[i], c.data[i]) = c.crc2[i] /\ Xor(c.crc2[i], c.data[i]) = c.crc1[i]
      /\ \A l \in 1 .. Len(job.chunks) : l # k => GbaApart(c, job.chunks[l])
  BY GbaGiven, Zenon DEF GbaMade
<1>4. [i \in 1 .. lChunkBytes |-> Xor(c.crc1[i], c.data[i])] = c.crc2
  BY <1>2, <1>3
<1>5. [i \in 1 .. lChunkBytes |-> Xor(c.crc2[i], c.data[i])] = c.crc1
  BY <1>2, <1>3
<1> QED  BY <1>2, <1>3, <1>4, <1>5

(* Writing a chunk leaves those apart from it as they were, a shorter file   *)
(* taken to end in zeros.                                                    *)
LEMMA GbaWritten ==
    ASSUME lChunkBytes \in Nat, lChunkBytes > 0, NEW f \in File, NEW c, c.offset \in Nat,
           NEW d \in [1 .. lChunkBytes -> Byte], NEW g, g = Put(f, c.offset, d)
    PROVE  /\ g \in File /\ Len(g) >= Len(f) /\ ChunkOf(g, c) = d
           /\ \A e : e.offset \in Nat /\ GbaApart(c, e) => ChunkOf(g, e) = ChunkOf(f, e)
<1>1. d \in File /\ Len(d) = lChunkBytes /\ d # <<>> /\ Len(f) \in Nat
  <2>1. d \in File /\ Len(d) = lChunkBytes /\ Len(f) \in Nat
    BY DEF File
  <2> QED  BY <2>1
<1>2. PICK o \in Nat : o = c.offset
  OBVIOUS
<1>3. /\ g \in File
      /\ Len(g) = IF o + lChunkBytes < Len(f) THEN Len(f) ELSE o + lChunkBytes
      /\ \A i \in 1 .. Len(g) :
           g[i] = IF o < i /\ i <= o + lChunkBytes THEN d[i - o] ELSE IF i <= Len(f) THEN f[i] ELSE 0
  BY <1>1, <1>2, PutBytes, ZenonT(40), SMTT(30)
<1>4. Len(g) \in Nat /\ Len(g) >= Len(f) /\ Len(g) >= o + lChunkBytes
  BY <1>1, <1>2, <1>3
<1>5. ChunkOf(g, c) = d
  <2>1. ASSUME NEW i \in 1 .. lChunkBytes PROVE o + i <= Len(g) /\ g[o + i] = d[i]
    <3>1. o + i \in 1 .. Len(g) /\ o < o + i /\ o + i <= o + lChunkBytes /\ (o + i) - o = i
      BY <1>2, <1>4, SMTT(30), ZenonT(30)
    <3> QED  BY <1>3, <3>1
  <2> QED  BY <1>2, <2>1 DEF ChunkOf
<1>6. ASSUME NEW e, e.offset \in Nat, GbaApart(c, e) PROVE ChunkOf(g, e) = ChunkOf(f, e)
  <2>1. PICK p \in Nat : p = e.offset
    BY <1>6
  <2>2. o + lChunkBytes <= p \/ p + lChunkBytes <= o
    BY <1>2, <1>6, <2>1 DEF GbaApart
  <2>3. ASSUME NEW i \in 1 .. lChunkBytes
        PROVE  (IF p + i <= Len(g) THEN g[p + i] ELSE 0) = (IF p + i <= Len(f) THEN f[p + i] ELSE 0)
    <3>1. PICK j \in Nat : j = p + i /\ j > 0
      BY <2>1
    <3>2. ~(o < j /\ j <= o + lChunkBytes)
      BY <1>2, <2>2, <3>1
    <3>3. CASE j <= Len(g)
      <4>1. j \in 1 .. Len(g)
        BY <1>4, <3>1, <3>3
      <4>2. g[j] = IF j <= Len(f) THEN f[j] ELSE 0
        BY <1>3, <3>2, <4>1
      <4> QED  BY <3>1, <3>3, <4>2
    <3>4. CASE ~(j <= Len(g))
      <4>1. ~(j <= Len(f))
        BY <1>1, <1>4, <3>1, <3>4
      <4> QED  BY <3>1, <3>4, <4>1
    <3> QED  BY <3>3, <3>4
  <2> QED  BY <2>1, <2>3 DEF ChunkOf
<1> QED  BY <1>3, <1>4, <1>5, <1>6

(* The chunk as it is seen: bytes, those of the ROM where the ROM has them   *)
(* and more than a chunk is left, zeros if nothing is left.                  *)
LEMMA GbaSeen ==
    ASSUME GbaType, at < Len(job.chunks), NEW c, c = job.chunks[at + 1], NEW left \in Int, left >= 0
    PROVE  /\ Seen(left) \in [1 .. lChunkBytes -> Byte]
           /\ left >= lChunkBytes /\ c.offset + lChunkBytes <= Len(out) => Seen(left) = ChunkOf(out, c)
           /\ left = 0 => Seen(left) = Fill(lChunkBytes, 0)
<1>1. /\ lChunkBytes \in Nat /\ lChunkBytes > 0 /\ out \in File /\ Len(out) \in Nat /\ c.offset \in Nat
      /\ loc.bByteArray1 \in [1 .. lChunkBytes -> Byte] /\ 0 \in Byte
  <2>1. job \in Jobs("apsgba") /\ out \in File /\ at \in 0 .. Len(job.chunks)
        /\ loc.bByteArray1 \in [1 .. lChunkBytes -> Byte]
    BY DEF GbaType
  <2>2. lChunkBytes \in Nat /\ lChunkBytes > 0 /\ Len(job.chunks) \in Nat
    BY <2>1, GbaGiven
  <2>3. at + 1 \in 1 .. Len(job.chunks)
    BY <2>1, <2>2
  <2>4. c.offset \in Nat
    BY <2>1, <2>3, GbaChunkIs
  <2>5. Len(out) \in Nat /\ 0 \in Byte
    BY <2>1, BaseAssumption DEF Byte, File
  <2> QED  BY <2>1, <2>2, <2>4, <2>5
<1>2. PICK b, s, got : /\ b = loc.bByteArray1 /\ s = Slice(out, c.offset, lChunkBytes)
                       /\ got = Put(b, 0, s)
  OBVIOUS
<1>3. b \in File /\ Len(b) = lChunkBytes
  <2>1. b \in [1 .. lChunkBytes -> Byte] /\ lChunkBytes \in Nat
    BY <1>1, <1>2
  <2> QED  BY <2>1, SMTT(30), ZenonT(30) DEF File
<1>4. s \in File /\ Len(s) \in Nat /\ Len(s) <= lChunkBytes
  <2>1. CASE c.offset + lChunkBytes <= Len(out)
    <3>1. s \in File /\ Len(s) = lChunkBytes
      BY <1>1, <1>2, <2>1, SliceFile
    <3> QED  BY <1>1, <3>1
  <2>2. CASE c.offset + lChunkBytes > Len(out)
    <3>1. s \in File /\ Len(s) < lChunkBytes
      BY <1>1, <1>2, <2>2, ShortSlice
    <3>2. Len(s) \in Nat
      BY <3>1 DEF File
    <3> QED  BY <1>1, <3>1, <3>2
  <2>3. c.offset + lChunkBytes <= Len(out) \/ c.offset + lChunkBytes > Len(out)
    BY <1>1
  <2> QED  BY <2>1, <2>2, <2>3
<1>5. got \in File /\ Len(got) = lChunkBytes
  <2>1. CASE s = <<>>
    BY <1>2, <1>3, <2>1 DEF Put
  <2>2. CASE s # <<>>
    <3>1. got \in File /\ Len(got) = IF 0 + Len(s) < Len(b) THEN Len(b) ELSE 0 + Len(s)
      BY <1>2, <1>3, <1>4, <2>2, PutBytes
    <3> QED  BY <1>1, <1>3, <1>4, <3>1
  <2> QED  BY <2>1, <2>2
<1>6. Seen(left) = [i \in 1 .. lChunkBytes |-> IF left < lChunkBytes /\ i > left THEN 0 ELSE got[i]]
  BY <1>2 DEF Seen
<1>7. \A i \in 1 .. lChunkBytes : got[i] \in Byte
  BY <1>5, FileBytes
<1>8. Seen(left) \in [1 .. lChunkBytes -> Byte]
  BY <1>1, <1>6, <1>7
<1>9. ASSUME left >= lChunkBytes, c.offset + lChunkBytes <= Len(out) PROVE Seen(left) = ChunkOf(out, c)
  <2>1. s \in File /\ Len(s) = lChunkBytes /\ \A i \in 1 .. lChunkBytes : s[i] = out[c.offset + i]
    BY <1>1, <1>2, <1>9, SliceFile, SliceBytes, SMTT(30), ZenonT(30)
  <2>2. s # <<>>
    BY <1>1, <2>1
  <2>3. ASSUME NEW i \in 1 .. lChunkBytes
        PROVE  got[i] = out[c.offset + i] /\ c.offset + i <= Len(out) /\ ~(left < lChunkBytes /\ i > left)
    <3>1. /\ Len(got) = lChunkBytes
          /\ \A k \in 1 .. Len(got) : got[k] = IF 0 < k /\ k <= 0 + Len(s) THEN s[k - 0] ELSE IF k <= Len(b) THEN b[k] ELSE 0
      BY <1>2, <1>3, <1>4, <1>5, <2>2, PutBytes
    <3>2. got[i] = s[i]
      BY <1>1, <2>1, <3>1
    <3>3. c.offset + i <= Len(out) /\ ~(left < lChunkBytes /\ i > left)
      BY <1>1, <1>9
    <3> QED  BY <2>1, <3>2, <3>3
  <2> QED  BY <1>6, <2>3 DEF ChunkOf
<1>10. ASSUME left = 0 PROVE Seen(left) = Fill(lChunkBytes, 0)
  <2>1. ASSUME NEW i \in 1 .. lChunkBytes PROVE left < lChunkBytes /\ i > left
    BY <1>1, <1>10
  <2> QED  BY <1>6, <2>1 DEF Fill
<1> QED  BY <1>8, <1>9, <1>10

(* While bytes are left there is a chunk, and reading it leaves those of the *)
(* others.                                                                   *)
LEMMA GbaCount ==
    ASSUME job \in Jobs("apsgba"), at \in 0 .. Len(job.chunks), GbaLeft(at) > 0
    PROVE  /\ at < Len(job.chunks) /\ GbaLeft(at) \in Int /\ GbaLeft(at + 1) = GbaLeft(at) - lChunkBytes - ChunkHead
           /\ job.cut = 0 => /\ at + 1 = Len(job.chunks) => GbaLeft(at + 1) = 0
                             /\ at + 1 < Len(job.chunks) => GbaLeft(at + 1) >= lChunkBytes
<1>1. PICK n, w : n = Len(job.chunks) /\ w = ChunkHead + lChunkBytes
  OBVIOUS
<1>2. /\ n \in Nat /\ w \in Nat /\ job.cut \in Nat /\ lChunkBytes \in Nat /\ ChunkHead \in Nat
      /\ w >= lChunkBytes /\ at \in Nat /\ at <= n
  BY <1>1, GbaGiven
<1>3. GbaLeft(at) = n * w - job.cut - at * w /\ GbaLeft(at + 1) = n * w - job.cut - (at + 1) * w
  BY <1>1 DEF GbaLeft
<1>4. PICK a \in Nat, b \in Nat : a = n * w /\ b = at * w
  BY <1>2
<1>5. (at + 1) * w = b + w
  BY <1>2, <1>4
<1>6. GbaLeft(at) = a - job.cut - b /\ GbaLeft(at + 1) = a - job.cut - (b + w)
  BY <1>3, <1>4, <1>5
<1>7. at < n
  <2>1. at = n => a = b
    BY <1>4
  <2>2. at # n
    BY <1>2, <1>4, <1>6, <2>1
  <2> QED  BY <1>2, <2>2
<1>8. at + 1 = n => a = b + w
  BY <1>4, <1>5
<1>9. at + 1 < n => a >= b + w + w
  <2>1. ASSUME at + 1 < n PROVE a >= b + w + w
    <3>1. PICK m \in Nat : n = at + 2 + m
      <4>1. n - at - 2 \in Nat /\ n = at + 2 + (n - at - 2)
        BY <1>2, <2>1
      <4> QED  BY <4>1
    <3>2. n * w = at * w + w + w + m * w
      BY <1>2, <3>1
    <3>3. m * w \in Nat
      BY <1>2, <3>1
    <3>4. PICK k \in Nat : k = m * w
      BY <3>3
    <3> QED  BY <1>2, <1>4, <3>2, <3>4
  <2> QED  BY <2>1
<1>10. GbaLeft(at) \in Int /\ GbaLeft(at + 1) = GbaLeft(at) - lChunkBytes - ChunkHead
  <2>1. PICK x, y : x = GbaLeft(at) /\ y = GbaLeft(at + 1)
    OBVIOUS
  <2>2. x = a - job.cut - b /\ y = a - job.cut - (b + w) /\ w = ChunkHead + lChunkBytes
    BY <1>1, <1>6, <2>1
  <2>3. x \in Int /\ y = x - lChunkBytes - ChunkHead
    BY <1>2, <1>4, <2>2, SMTT(30), ZenonT(30)
  <2> QED  BY <2>1, <2>3
<1>11. job.cut = 0 /\ at + 1 = n => GbaLeft(at + 1) = 0
  BY <1>2, <1>4, <1>6, <1>8
<1>12. job.cut = 0 /\ at + 1 < n => GbaLeft(at + 1) >= lChunkBytes
  BY <1>2, <1>4, <1>6, <1>9
<1> QED  BY <1>1, <1>7, <1>10, <1>11, <1>12

(* One turn of the loop.                                                     *)
GbaStops(c, left) ==
    /\ pc' = "done" /\ disk' = out /\ UNCHANGED <<job, out, at, loc>>
    /\ \/ ret' = Crash /\ left < 0
       \/ ret' \in {-2, -3} /\ loc.fIsModified
       \/ ret' = -4 /\ Seen(left) \notin {c.crc1, c.crc2}
GbaWrites(c, left, new) ==
    /\ left >= 0 /\ new = [i \in 1 .. lChunkBytes |-> Xor(Seen(left)[i], c.data[i])]
    /\ pc' = "chunk" /\ at' = at + 1 /\ out' = Put(out, c.offset, new) /\ UNCHANGED <<job, ret, disk>>
    /\ loc'.lBytesLeft = left /\ loc'.bByteArray1 = new
    /\ \/ Seen(left) = c.crc1 /\ loc'.fIsModified = loc.fIsModified
       \/ Seen(left) # c.crc1 /\ Seen(left) = c.crc2
       \/ job.ignore
LEMMA GbaTurn ==
    ASSUME GbaType, ApplyChunk, NEW c, c = job.chunks[at + 1]
    PROVE  /\ GbaLeft(at) > 0 /\ at < Len(job.chunks) /\ GbaLeft(at + 1) \in Int
           /\ GbaStops(c, GbaLeft(at + 1)) \/ \E new : GbaWrites(c, GbaLeft(at + 1), new)
<1>1. job \in Jobs("apsgba") /\ at \in 0 .. Len(job.chunks) /\ loc.lBytesLeft = GbaLeft(at) /\ loc.lBytesLeft > 0
      /\ pc = "chunk"
  BY DEF GbaType, ApplyChunk
<1>2. PICK left : left = loc.lBytesLeft - lChunkBytes - ChunkHead
  OBVIOUS
<1>3. left = GbaLeft(at + 1) /\ left \in Int /\ at < Len(job.chunks)
  BY <1>1, <1>2, GbaCount, GbaGiven
<1>4. PICK seen, new : seen = Seen(left) /\ new = [i \in 1 .. lChunkBytes |-> Xor(seen[i], c.data[i])]
  OBVIOUS
<1>5. PICK both \in BOOLEAN : both <=> loc.fIsOriginal /\ loc.fIsModified
  OBVIOUS
<1>6. \/ left < 0 /\ Close(Crash) /\ UNCHANGED <<job, out, at, loc>>
      \/ left >= 0 /\ seen = c.crc1 /\ both /\ Close(-2) /\ UNCHANGED <<job, out, at, loc>>
      \/ /\ left >= 0 /\ seen = c.crc1 /\ out' = Put(out, c.offset, new) /\ at' = at + 1 /\ UNCHANGED <<job, pc, ret, disk>>
         /\ loc' = [[loc EXCEPT !.fIsOriginal = TRUE] EXCEPT !.lBytesLeft = left, !.bByteArray1 = new]
      \/ left >= 0 /\ seen # c.crc1 /\ seen = c.crc2 /\ both /\ Close(-3) /\ UNCHANGED <<job, out, at, loc>>
      \/ /\ left >= 0 /\ seen # c.crc1 /\ seen = c.crc2 /\ out' = Put(out, c.offset, new) /\ at' = at + 1
         /\ loc' = [[loc EXCEPT !.fIsModified = TRUE] EXCEPT !.lBytesLeft = left, !.bByteArray1 = new]
         /\ UNCHANGED <<job, pc, ret, disk>>
      \/ /\ left >= 0 /\ job.ignore /\ out' = Put(out, c.offset, new) /\ at' = at + 1 /\ UNCHANGED <<job, pc, ret, disk>>
         /\ loc' = [[loc EXCEPT !.fIsOriginal = TRUE] EXCEPT !.lBytesLeft = left, !.bByteArray1 = new]
      \/ left >= 0 /\ seen \notin {c.crc1, c.crc2} /\ Close(-4) /\ UNCHANGED <<job, out, at, loc>>
  BY <1>2, <1>4, <1>5, ZenonT(40), SMTT(30) DEF ApplyChunk, Assumed
<1>7. CASE Close(Crash) /\ left < 0 /\ UNCHANGED <<job, out, at, loc>>
  BY <1>1, <1>3, <1>7 DEF GbaStops, Close
<1>8. CASE both /\ (Close(-2) \/ Close(-3)) /\ UNCHANGED <<job, out, at, loc>>
  BY <1>1, <1>3, <1>5, <1>8 DEF GbaStops, Close
<1>9. CASE seen \notin {c.crc1, c.crc2} /\ Close(-4) /\ UNCHANGED <<job, out, at, loc>>
  BY <1>1, <1>3, <1>4, <1>9 DEF GbaStops, Close
<1>10. CASE /\ left >= 0 /\ (seen = c.crc1 \/ job.ignore)
            /\ out' = Put(out, c.offset, new) /\ at' = at + 1 /\ UNCHANGED <<job, pc, ret, disk>>
            /\ loc' = [[loc EXCEPT !.fIsOriginal = TRUE] EXCEPT !.lBytesLeft = left, !.bByteArray1 = new]
  <2>1. loc'.lBytesLeft = left /\ loc'.bByteArray1 = new /\ loc'.fIsModified = loc.fIsModified
    BY <1>10
  <2>2. GbaWrites(c, left, new)
    BY <1>1, <1>4, <1>10, <2>1 DEF GbaWrites
  <2> QED  BY <1>1, <1>3, <2>2
<1>11. CASE /\ left >= 0 /\ seen # c.crc1 /\ seen = c.crc2 /\ out' = Put(out, c.offset, new) /\ at' = at + 1
            /\ loc' = [[loc EXCEPT !.fIsModified = TRUE] EXCEPT !.lBytesLeft = left, !.bByteArray1 = new]
            /\ UNCHANGED <<job, pc, ret, disk>>
  <2>1. loc'.lBytesLeft = left /\ loc'.bByteArray1 = new
    BY <1>11
  <2>2. GbaWrites(c, left, new)
    BY <1>1, <1>4, <1>11, <2>1 DEF GbaWrites
  <2> QED  BY <1>1, <1>3, <2>2
<1> QED  BY <1>6, <1>7, <1>8, <1>9, <1>10, <1>11

(* What a written chunk is, and that all the others stay.                    *)
LEMMA GbaWrote ==
    ASSUME GbaType, at < Len(job.chunks), GbaLeft(at + 1) \in Int, NEW c, c = job.chunks[at + 1],
           NEW new, GbaWrites(c, GbaLeft(at + 1), new)
    PROVE  /\ out' \in File /\ Len(out') \in Nat /\ Len(out) \in Nat /\ Len(out') >= Len(out)
           /\ new \in [1 .. lChunkBytes -> Byte]
           /\ ChunkOf(out', c) = new
           /\ \A k \in 1 .. Len(job.chunks) : k # at + 1 =>
                ChunkOf(out', job.chunks[k]) = ChunkOf(out, job.chunks[k])
           /\ Seen(GbaLeft(at + 1)) = c.crc1 => new = c.crc2
           /\ Seen(GbaLeft(at + 1)) = c.crc2 => new = c.crc1
<1>1. job \in Jobs("apsgba") /\ at \in 0 .. Len(job.chunks) /\ out \in File
  BY DEF GbaType
<1>2. lChunkBytes \in Nat /\ lChunkBytes > 0 /\ Len(job.chunks) \in Nat
  BY <1>1, GbaGiven
<1>3. at + 1 \in 1 .. Len(job.chunks)
  BY <1>1, <1>2
<1>4. PICK left \in Int : left = GbaLeft(at + 1)
  OBVIOUS
<1>5. /\ left >= 0 /\ new = [i \in 1 .. lChunkBytes |-> Xor(Seen(left)[i], c.data[i])]
      /\ out' = Put(out, c.offset, new)
  BY <1>4 DEF GbaWrites
<1>6. PICK seen : seen = Seen(left)
  OBVIOUS
<1>7. seen \in [1 .. lChunkBytes -> Byte]
  BY <1>5, <1>6, GbaSeen
<1>8. /\ c.offset \in Nat /\ c.data \in [1 .. lChunkBytes -> Byte]
      /\ [i \in 1 .. lChunkBytes |-> Xor(c.crc1[i], c.data[i])] = c.crc2
      /\ [i \in 1 .. lChunkBytes |-> Xor(c.crc2[i], c.data[i])] = c.crc1
      /\ \A l \in 1 .. Len(job.chunks) : l # at + 1 => GbaApart(c, job.chunks[l])
  BY <1>1, <1>3, GbaChunkIs
<1>9. new \in [1 .. lChunkBytes -> Byte]
  <2>1. \A i \in 1 .. lChunkBytes : Xor(seen[i], c.data[i]) \in Byte
    BY <1>7, <1>8, BaseAssumption
  <2> QED  BY <1>5, <1>6, <2>1
<1>10. /\ out' \in File /\ Len(out') >= Len(out) /\ ChunkOf(out', c) = new
       /\ \A e : e.offset \in Nat /\ GbaApart(c, e) => ChunkOf(out', e) = ChunkOf(out, e)
  <2>1. PICK g : g = Put(out, c.offset, new)
    OBVIOUS
  <2>2. /\ g \in File /\ Len(g) >= Len(out) /\ ChunkOf(g, c) = new
        /\ \A e : e.offset \in Nat /\ GbaApart(c, e) => ChunkOf(g, e) = ChunkOf(out, e)
    BY <1>1, <1>2, <1>8, <1>9, <2>1, GbaWritten
  <2>3. out' = g
    BY <1>5, <2>1
  <2> QED  BY <2>2, <2>3
<1>11. ASSUME NEW k \in 1 .. Len(job.chunks), k # at + 1
       PROVE  ChunkOf(out', job.chunks[k]) = ChunkOf(out, job.chunks[k])
  <2>1. job.chunks[k].offset \in Nat
    BY <1>1, GbaChunkIs
  <2>2. GbaApart(c, job.chunks[k])
    BY <1>8, <1>11
  <2> QED  BY <1>10, <2>1, <2>2
<1>12. (seen = c.crc1 => new = c.crc2) /\ (seen = c.crc2 => new = c.crc1)
  BY <1>5, <1>6, <1>8
<1>13. Len(out') \in Nat /\ Len(out) \in Nat
  BY <1>1, <1>10 DEF File
<1> QED  BY <1>4, <1>6, <1>9, <1>10, <1>11, <1>12, <1>13

(* A turn keeps what is known of each chunk.                                 *)
LEMMA GbaKnown ==
    ASSUME GbaType, ApsGbaKnownChunks, ~job.ignore, at < Len(job.chunks), GbaLeft(at + 1) \in Int, pc = "chunk",
           NEW c, c = job.chunks[at + 1], NEW new, GbaWrites(c, GbaLeft(at + 1), new)
    PROVE  ApsGbaKnownChunks'
<1>1. job \in Jobs("apsgba") /\ at \in 0 .. Len(job.chunks) /\ job' = job
  BY DEF GbaType, GbaWrites
<1>2. job.fmt = "apsgba" /\ job.chunks \in Seq(GbaChunks)
  BY <1>1, GbaGiven
<1>3. DOMAIN job.chunks = 1 .. Len(job.chunks)
  BY <1>2
<1>4. \A k \in 1 .. Len(job.chunks) :
        ChunkOf(out, job.chunks[k]) \in {ChunkOf(job.rom, job.chunks[k]), job.chunks[k].crc1, job.chunks[k].crc2}
  BY <1>2, <1>3 DEF ApsGbaKnownChunks
<1>5. new \in {c.crc1, c.crc2}
  BY GbaWrote DEF GbaWrites
<1>6. ASSUME NEW k \in 1 .. Len(job.chunks)
      PROVE  ChunkOf(out', job.chunks[k]) \in {ChunkOf(job.rom, job.chunks[k]), job.chunks[k].crc1, job.chunks[k].crc2}
  <2>1. CASE k = at + 1
    BY <1>5, <2>1, GbaWrote
  <2>2. CASE k # at + 1
    BY <1>4, <2>2, GbaWrote
  <2> QED  BY <2>1, <2>2
<1>7. \A k \in DOMAIN job'.chunks : LET d == job'.chunks[k] IN
        ChunkOf(out', d) \in {ChunkOf(job'.rom, d), d.crc1, d.crc2}
  BY <1>1, <1>3, <1>6
<1> QED  BY <1>7 DEF ApsGbaKnownChunks

(* A turn of a call as ApsGbaLastChunk describes it.                         *)
LEMMA GbaHalves ==
    ASSUME GbaType, GbaFor, GbaHalf, pc = "chunk", GbaLeft(at) > 0, at < Len(job.chunks), GbaLeft(at + 1) \in Int,
           NEW c, c = job.chunks[at + 1], NEW n, n = Len(job.chunks)
    PROVE  /\ GbaLeft(at + 1) >= 0 /\ n \in Nat /\ at \in Nat
           /\ at + 1 < n => Seen(GbaLeft(at + 1)) = c.crc1
           /\ at + 1 = n => Seen(GbaLeft(at + 1)) = Fill(lChunkBytes, 0)
           /\ loc.fIsModified = FALSE \/ ~loc.fIsModified
           /\ \A new : GbaWrites(c, GbaLeft(at + 1), new) => GbaHalf'
<1>1. job \in Jobs("apsgba") /\ at \in 0 .. Len(job.chunks) /\ out \in File /\ Len(out) >= Len(job.rom) /\ ~job.ignore
      /\ job.cut = 0
  <2>1. job \in Jobs("apsgba") /\ at \in 0 .. Len(job.chunks) /\ out \in File /\ Len(out) >= Len(job.rom)
    BY DEF GbaType
  <2>2. job.whole /\ ~job.ignore
    BY DEF GbaFor
  <2>3. job.cut = 0
    BY <2>1, <2>2, GbaGiven DEF GbaMade
  <2> QED  BY <2>1, <2>2, <2>3
<1>2. lChunkBytes \in Nat /\ lChunkBytes > 0 /\ n \in Nat /\ Len(job.rom) \in Nat /\ Len(out) \in Nat
  BY <1>1, GbaGiven DEF File
<1>3. at \in Nat /\ at + 1 \in 1 .. n /\ at + 1 > at /\ at < n
  BY <1>1, <1>2
<1>4. PICK left \in Int : left = GbaLeft(at + 1)
  OBVIOUS
<1>5. (at + 1 = n => left = 0) /\ (at + 1 < n => left >= lChunkBytes)
  BY <1>1, <1>4, GbaCount
<1>6. left >= 0
  BY <1>2, <1>3, <1>5
<1>7. ChunkOf(out, c) = c.crc1 /\ ~loc.fIsModified
  BY <1>3 DEF GbaHalf
<1>8. ASSUME at + 1 < n PROVE Seen(left) = c.crc1
  <2>1. at + 1 \in 1 .. (n - 1)
    BY <1>2, <1>3, <1>8
  <2>2. c.offset + lChunkBytes <= Len(job.rom)
    BY <2>1 DEF GbaFor
  <2>3. c.offset \in Nat
    BY <1>1, <1>3, GbaChunkIs
  <2>4. c.offset + lChunkBytes <= Len(out)
    BY <1>1, <1>2, <2>2, <2>3, SMTT(30), ZenonT(30)
  <2>5. Seen(left) = ChunkOf(out, c)
    BY <1>5, <1>6, <1>8, <2>4, GbaSeen
  <2> QED  BY <1>7, <2>5
<1>9. at + 1 = n => Seen(left) = Fill(lChunkBytes, 0)
  BY <1>5, <1>6, GbaSeen
<1>10. ASSUME NEW new, GbaWrites(c, left, new) PROVE GbaHalf'
  <2>1. /\ ChunkOf(out', c) = new
        /\ \A k \in 1 .. n : k # at + 1 => ChunkOf(out', job.chunks[k]) = ChunkOf(out, job.chunks[k])
        /\ Seen(left) = c.crc1 => new = c.crc2
    BY <1>4, <1>10, GbaWrote
  <2>2. /\ at' = at + 1 /\ job' = job
        /\ \/ Seen(left) = c.crc1 /\ loc'.fIsModified = loc.fIsModified
           \/ Seen(left) # c.crc1 /\ Seen(left) = c.crc2
    BY <1>1, <1>10 DEF GbaWrites
  <2>3. ASSUME NEW k \in 1 .. n, k > at + 1 PROVE ChunkOf(out', job.chunks[k]) = job.chunks[k].crc1
    <3>1. k > at /\ k # at + 1
      BY <1>3, <2>3
    <3>2. ChunkOf(out, job.chunks[k]) = job.chunks[k].crc1
      BY <3>1 DEF GbaHalf
    <3> QED  BY <2>1, <3>1, <3>2
  <2>4. ASSUME NEW k \in 1 .. n, k <= at + 1, k < n PROVE ChunkOf(out', job.chunks[k]) = job.chunks[k].crc2
    <3>1. CASE k = at + 1
      BY <1>8, <2>1, <2>4, <3>1
    <3>2. CASE k # at + 1
      <4>1. k <= at
        BY <1>3, <2>4, <3>2
      <4>2. ChunkOf(out, job.chunks[k]) = job.chunks[k].crc2
        BY <2>4, <4>1 DEF GbaHalf
      <4> QED  BY <2>1, <3>2, <4>2
    <3> QED  BY <3>1, <3>2
  <2>5. at + 1 < n => ~loc'.fIsModified
    BY <1>7, <1>8, <2>2
  <2>6. at + 1 = n => Fill(lChunkBytes, 0) \in {job.chunks[n].crc1, job.chunks[n].crc2}
    BY <1>9, <2>2
  <2> QED  BY <2>2, <2>3, <2>4, <2>5, <2>6 DEF GbaHalf
<1> QED  BY <1>2, <1>3, <1>4, <1>6, <1>7, <1>8, <1>9, <1>10

(* What is reported when the call ends behind the last chunk or within it.   *)
LEMMA GbaEnds ==
    ASSUME GbaType, job' = job, pc' = "done",
           GbaFor => \/ ret' = -5
                     \/ /\ ret' = 0 /\ Fill(lChunkBytes, 0) \in {job.chunks[Len(job.chunks)].crc1, job.chunks[Len(job.chunks)].crc2}
                     \/ /\ ret' = -4 /\ disk' = out
                        /\ Fill(lChunkBytes, 0) \notin {job.chunks[Len(job.chunks)].crc1, job.chunks[Len(job.chunks)].crc2}
                        /\ GbaHalf /\ at + 1 = Len(job.chunks)
    PROVE  ApsGbaLastChunk'
<1>1. CASE ~GbaFor
  BY <1>1 DEF GbaFor, ApsGbaLastChunk
<1>2. CASE GbaFor
  <2>1. PICK n : n = Len(job.chunks)
    OBVIOUS
  <2>2. n \in Nat /\ at \in 0 .. n
    BY <2>1, GbaGiven DEF GbaType
  <2>3. CASE ret' = -5
    BY <2>3 DEF ApsGbaLastChunk
  <2>4. CASE ret' = 0 /\ Fill(lChunkBytes, 0) \in {job.chunks[n].crc1, job.chunks[n].crc2}
    BY <2>1, <2>4 DEF ApsGbaLastChunk
  <2>5. CASE /\ ret' = -4 /\ disk' = out /\ Fill(lChunkBytes, 0) \notin {job.chunks[n].crc1, job.chunks[n].crc2}
             /\ GbaHalf /\ at + 1 = n
    <3>1. ASSUME NEW k \in 1 .. n
          PROVE  ChunkOf(disk', job.chunks[k]) = IF k < n THEN job.chunks[k].crc2 ELSE job.chunks[k].crc1
      <4>1. CASE k < n
        <5>1. k <= at
          BY <2>2, <2>5, <4>1
        <5> QED  BY <2>1, <2>5, <4>1, <5>1 DEF GbaHalf
      <4>2. CASE ~(k < n)
        <5>1. k > at
          BY <2>2, <2>5, <4>2
        <5> QED  BY <2>1, <2>5, <4>2, <5>1 DEF GbaHalf
      <4> QED  BY <4>1, <4>2
    <3> QED  BY <2>1, <2>5, <3>1 DEF ApsGbaLastChunk
  <2> QED  BY <1>2, <2>1, <2>3, <2>4, <2>5
<1> QED  BY <1>1, <1>2

(* Nothing is left of an intact patch only behind its last chunk.            *)
LEMMA GbaNoneLeft ==
    ASSUME job \in Jobs("apsgba"), at \in 0 .. Len(job.chunks), job.cut = 0, GbaLeft(at) <= 0
    PROVE  at = Len(job.chunks)
<1>1. PICK n, w : n = Len(job.chunks) /\ w = ChunkHead + lChunkBytes
  OBVIOUS
<1>2. n \in Nat /\ w \in Nat /\ w > 0 /\ at \in Nat /\ at <= n
  BY <1>1, GbaGiven
<1>3. GbaLeft(at) = n * w - 0 - at * w
  BY <1>1 DEF GbaLeft
<1>4. ASSUME at < n PROVE FALSE
  <2>1. PICK m \in Nat : n = at + 1 + m
    <3>1. n - at - 1 \in Nat /\ n = at + 1 + (n - at - 1)
      BY <1>2, <1>4
    <3> QED  BY <3>1
  <2>2. n * w = at * w + w + m * w
    BY <1>2, <2>1
  <2>3. PICK a \in Nat, b \in Nat, k \in Nat : a = n * w /\ b = at * w /\ k = m * w
    BY <1>2, <2>1
  <2>4. a - 0 - b <= 0 /\ a = b + w + k
    BY <1>3, <2>2, <2>3
  <2> QED  BY <1>2, <2>3, <2>4
<1> QED  BY <1>1, <1>2, <1>4

(* Each step of ApplyPatch.                                                  *)
LEMMA GbaStep == GbaIInv /\ [ApsGbaNext \/ Done]_vars => GbaIInv'
<1> SUFFICES ASSUME GbaIInv, [ApsGbaNext \/ Done]_vars PROVE GbaIInv'
  OBVIOUS
<1>0. /\ job' = job /\ job \in Jobs("apsgba") /\ out \in File /\ at \in 0 .. Len(job.chunks)
      /\ loc.bByteArray1 \in [1 .. lChunkBytes -> Byte] /\ GbaType /\ ApsGbaKnownChunks /\ (GbaFor' <=> GbaFor)
  <2>1. job' = job
    BY DEF ApsGbaNext, ApplyPatch, ApplyChunk, TruncateFile, Done, vars
  <2> QED  BY <2>1 DEF GbaIInv, GbaType, GbaFor
<1>a. /\ Len(job.chunks) \in Nat /\ lChunkBytes \in Nat /\ lChunkBytes > 0 /\ job.fmt = "apsgba" /\ job.cut \in Nat
      /\ job.rom \in File /\ Len(job.rom) \in Nat /\ ChunkHead \in Nat /\ GbaMade(job)
  BY <1>0, GbaGiven
<1>1. CASE ApplyPatch
  <2>1. pc = "ApplyPatch" /\ UNCHANGED <<out, at>> /\ out = job.rom /\ at = 0 /\ ~loc.fIsModified
    BY <1>1 DEF ApplyPatch, GbaIInv, GbaType
  <2>2. CASE pc' = "done" /\ loc' = loc /\ (ret' = -5 \/ (ret' = -1 /\ job.magic # "APS1"))
    <3>1. GbaType'
      BY <1>0, <2>1, <2>2 DEF GbaType
    <3>2. ApsGbaKnownChunks'
      BY <1>0, <2>1, <2>2 DEF ApsGbaKnownChunks
    <3>3. ApsGbaLastChunk'
      <4>1. GbaFor => job.magic = "APS1"
        BY <1>a DEF GbaFor, GbaMade
      <4> QED  BY <1>0, <2>2, <4>1, GbaEnds
    <3> QED  BY <2>2, <3>1, <3>2, <3>3 DEF GbaIInv
  <2>3. CASE /\ pc' = "chunk"
             /\ loc' = [loc EXCEPT !.lBytesLeft = Len(job.chunks) * (ChunkHead + lChunkBytes) - job.cut]
    <3>1. loc'.lBytesLeft = Len(job.chunks) * (ChunkHead + lChunkBytes) - job.cut
          /\ loc'.bByteArray1 = loc.bByteArray1 /\ loc'.fIsModified = loc.fIsModified
      BY <2>3
    <3>2. GbaLeft(0) = Len(job.chunks) * (ChunkHead + lChunkBytes) - job.cut
      <4>1. PICK n \in Nat, w \in Nat, cut \in Nat :
              n = Len(job.chunks) /\ w = ChunkHead + lChunkBytes /\ cut = job.cut
        BY <1>0, GbaGiven
      <4>2. PICK a \in Nat : a = n * w
        BY <4>1
      <4>3. 0 * w = 0
        BY <4>1
      <4>4. GbaLeft(0) = a - cut - 0
        BY <4>1, <4>2, <4>3 DEF GbaLeft
      <4> QED  BY <4>1, <4>2, <4>4
    <3>3. GbaType'
      <4>1. GbaLeft(at)' = GbaLeft(0)
        BY <1>0, <2>1 DEF GbaLeft
      <4>2. Len(out) >= Len(job.rom)
        BY <1>a, <2>1
      <4> QED  BY <1>0, <2>1, <2>3, <3>1, <3>2, <4>1, <4>2 DEF GbaType
    <3>4. ApsGbaKnownChunks'
      BY <1>0, <2>1, <2>3 DEF ApsGbaKnownChunks
    <3>5. GbaFor => GbaHalf'
      <4>1. ASSUME GbaFor, NEW k \in 1 .. Len(job.chunks) PROVE ChunkOf(job.rom, job.chunks[k]) = job.chunks[k].crc1
        <5>1. job.whole /\ job.rom = job.from
          BY <4>1 DEF GbaFor
        <5> QED  BY <1>0, <5>1, GbaChunkIs
      <4>2. GbaFor => Len(job.chunks) # 0
        <5>1. job.chunks \in Seq(GbaChunks)
          BY <1>0, GbaGiven
        <5>2. job.chunks # <<>> => Len(job.chunks) # 0
          BY <5>1, EmptySeq
        <5> QED  BY <5>2 DEF GbaFor
      <4>3. ASSUME NEW k \in 1 .. Len(job.chunks) PROVE ~(k <= 0)
        BY <1>a
      <4> QED  BY <1>0, <2>1, <3>1, <4>1, <4>2, <4>3 DEF GbaHalf
    <3> QED  BY <1>0, <2>3, <3>3, <3>4, <3>5 DEF GbaIInv, ApsGbaLastChunk
  <2> QED  BY <1>1, <2>2, <2>3 DEF ApplyPatch, Close
<1>2. CASE ApplyChunk
  <2>0. pc = "chunk"
    BY <1>2 DEF ApplyChunk
  <2>1. PICK c : c = job.chunks[at + 1]
    OBVIOUS
  <2>2. /\ GbaLeft(at) > 0 /\ at < Len(job.chunks) /\ GbaLeft(at + 1) \in Int
        /\ GbaStops(c, GbaLeft(at + 1)) \/ \E new : GbaWrites(c, GbaLeft(at + 1), new)
    BY <1>0, <1>2, <2>1, GbaTurn
  <2>h. GbaFor => GbaHalf
    BY <2>0 DEF GbaIInv
  <2>3. CASE GbaStops(c, GbaLeft(at + 1))
    <3>1. pc' = "done" /\ disk' = out /\ UNCHANGED <<job, out, at, loc>> /\ ret' # 0
      BY <2>3 DEF GbaStops, Crash
    <3>2. GbaType'
      BY <1>0, <3>1 DEF GbaType
    <3>3. ApsGbaKnownChunks'
      BY <1>0, <2>0, <3>1 DEF ApsGbaKnownChunks
    <3>4. ApsGbaLastChunk'
      <4>1. ASSUME GbaFor
            PROVE  /\ ret' = -4 /\ disk' = out /\ GbaHalf /\ at + 1 = Len(job.chunks)
                   /\ Fill(lChunkBytes, 0) \notin {job.chunks[Len(job.chunks)].crc1, job.chunks[Len(job.chunks)].crc2}
        <5>1. PICK n, left : n = Len(job.chunks) /\ left = GbaLeft(at + 1)
          OBVIOUS
        <5>2. /\ left >= 0 /\ (at + 1 < n => Seen(left) = c.crc1)
              /\ (at + 1 = n => Seen(left) = Fill(lChunkBytes, 0)) /\ n \in Nat /\ at \in Nat
          BY <1>0, <2>0, <2>1, <2>2, <2>h, <4>1, <5>1, GbaHalves
        <5>3. ~loc.fIsModified
          BY <2>2, <2>h, <4>1 DEF GbaHalf
        <5>4. left \in Int /\ ~(left < 0)
          BY <2>2, <5>1, <5>2
        <5>5. ret' = -4 /\ Seen(left) \notin {c.crc1, c.crc2}
          BY <2>3, <5>1, <5>3, <5>4 DEF GbaStops
        <5>6. at + 1 = n
          BY <2>2, <5>1, <5>2, <5>5
        <5> QED  BY <2>1, <2>h, <3>1, <4>1, <5>1, <5>2, <5>5, <5>6
      <4> QED  BY <1>0, <3>1, <4>1, GbaEnds
    <3> QED  BY <3>1, <3>2, <3>3, <3>4 DEF GbaIInv
  <2>4. CASE \E new : GbaWrites(c, GbaLeft(at + 1), new)
    <3>1. PICK new : GbaWrites(c, GbaLeft(at + 1), new)
      BY <2>4
    <3>2. /\ pc' = "chunk" /\ at' = at + 1 /\ loc'.lBytesLeft = GbaLeft(at + 1) /\ loc'.bByteArray1 = new
      BY <3>1 DEF GbaWrites
    <3>3. /\ out' \in File /\ Len(out') \in Nat /\ Len(out) \in Nat /\ Len(out') >= Len(out)
          /\ new \in [1 .. lChunkBytes -> Byte]
      BY <1>0, <2>1, <2>2, <3>1, GbaWrote
    <3>4. GbaType'
      <4>1. at + 1 \in 0 .. Len(job.chunks) /\ Len(out') >= Len(job.rom)
        <5>1. Len(out) >= Len(job.rom)
          BY <1>0, <2>0 DEF GbaType
        <5> QED  BY <1>0, <1>a, <2>2, <3>3, <5>1
      <4>2. GbaLeft(at)' = GbaLeft(at + 1)
        BY <1>0, <3>2 DEF GbaLeft
      <4> QED  BY <1>0, <3>2, <3>3, <4>1, <4>2 DEF GbaType
    <3>5. ApsGbaKnownChunks'
      <4>1. CASE ~job.ignore
        BY <1>0, <2>0, <2>1, <2>2, <3>1, <4>1, GbaKnown
      <4>2. CASE job.ignore
        BY <1>0, <4>2 DEF ApsGbaKnownChunks
      <4> QED  BY <4>1, <4>2
    <3>6. GbaFor => GbaHalf'
      BY <1>0, <2>0, <2>1, <2>2, <2>h, <3>1, GbaHalves
    <3> QED  BY <1>0, <3>2, <3>4, <3>5, <3>6 DEF GbaIInv, ApsGbaLastChunk
  <2> QED  BY <2>2, <2>3, <2>4
<1>3. CASE TruncateFile
  <2>1. pc = "chunk" /\ pc' = "done" /\ ret' = 0 /\ UNCHANGED <<at, loc>> /\ loc.lBytesLeft <= 0
    BY <1>3 DEF TruncateFile
  <2>2. out' \in File
    <3>1. PICK m : m = IF loc.fIsOriginal THEN job.size1 ELSE job.size2
      OBVIOUS
    <3>2. m \in Nat /\ out' = Slice(out, 0, m) /\ Len(out) \in Nat
      BY <1>0, <1>3, <1>a, <3>1 DEF TruncateFile, GbaMade, File
    <3>3. CASE 0 + m <= Len(out)
      BY <1>0, <3>2, <3>3, SliceFile
    <3>4. CASE 0 + m > Len(out)
      <4>1. m > 0
        BY <3>2, <3>4
      <4> QED  BY <1>0, <3>2, <3>4, <4>1, ShortSlice
    <3> QED  BY <3>2, <3>3, <3>4
  <2>3. GbaType'
    BY <1>0, <2>1, <2>2 DEF GbaType
  <2>4. ApsGbaKnownChunks'
    BY <2>1 DEF ApsGbaKnownChunks
  <2>5. ApsGbaLastChunk'
    <3>1. ASSUME GbaFor
          PROVE  Fill(lChunkBytes, 0) \in {job.chunks[Len(job.chunks)].crc1, job.chunks[Len(job.chunks)].crc2}
      <4>1. GbaHalf /\ job.cut = 0 /\ GbaLeft(at) <= 0
        BY <1>a, <2>1, <3>1 DEF GbaIInv, GbaType, GbaFor, GbaMade
      <4>2. at = Len(job.chunks)
        BY <1>0, <4>1, GbaNoneLeft
      <4> QED  BY <4>1, <4>2 DEF GbaHalf
    <3> QED  BY <1>0, <2>1, <3>1, GbaEnds
  <2> QED  BY <2>1, <2>3, <2>4, <2>5 DEF GbaIInv
<1>4. CASE Done \/ UNCHANGED vars
  <2>1. UNCHANGED <<job, out, disk, at, loc, pc, ret>>
    BY <1>4 DEF Done, vars
  <2>2. GbaType' /\ ApsGbaKnownChunks' /\ ApsGbaLastChunk'
    BY <1>0, <2>1 DEF GbaIInv, GbaType, ApsGbaKnownChunks, ApsGbaLastChunk, GbaLeft
  <2>3. (GbaFor /\ pc = "chunk" => GbaHalf)'
    BY <1>0, <2>1 DEF GbaIInv, GbaHalf
  <2> QED  BY <2>2, <2>3 DEF GbaIInv
<1> QED  BY <1>1, <1>2, <1>3, <1>4 DEF ApsGbaNext

-----------------------------------------------------------------------------
(* What any read gives, at the end of the file too.                          *)
LEMMA AnySlice == ASSUME NEW f \in File, NEW k \in Nat, NEW n \in Nat
                  PROVE  Slice(f, k, n) \in File /\ Len(Slice(f, k, n)) \in 0 .. n
<1>1. CASE k + n <= Len(f)
  BY <1>1, SliceFile
<1>2. CASE ~(k + n <= Len(f)) /\ n > 0
  <2>1. Len(f) \in Nat
    BY DEF File
  <2>2. k + n > Len(f)
    BY <1>2, <2>1
  <2>3. Slice(f, k, n) \in File /\ Len(Slice(f, k, n)) < n
    BY <1>2, <2>2, ShortSlice
  <2>4. Len(Slice(f, k, n)) \in Nat
    BY <2>3 DEF File
  <2> QED  BY <2>3, <2>4
<1>3. CASE ~(k + n <= Len(f)) /\ n = 0
  <2>1. Len(f) \in Nat
    BY DEF File
  <2>2. Slice(f, k, n) = SubSeq(f, k + 1, Len(f)) /\ k + 1 > Len(f)
    BY <1>3, <2>1 DEF Slice
  <2>3. Slice(f, k, n) = <<>>
    BY <2>1, <2>2 DEF File
  <2>4. <<>> \in File /\ Len(<<>>) = 0 /\ 0 \in 0 .. n
    BY DEF File
  <2> QED  BY <2>3, <2>4
<1> QED  BY <1>1, <1>2, <1>3

(* A variable that is read into has its size and holds bytes.                *)
LEMMA IntoFile ==
    ASSUME NEW got \in File, NEW n \in Nat, NEW old, old = <<>> \/ (old \in File /\ Len(old) = n), NEW x \in Into(old, got, n)
    PROVE  x \in File /\ Len(x) = n
<1>1. Len(got) \in Nat
  BY DEF File
<1>2. CASE Len(got) >= n
  BY <1>1, <1>2 DEF Into, File
<1>3. CASE Len(got) < n
  <2>1. PICK o \in IF old = <<>> THEN [1 .. n -> Byte] ELSE {old} : x = got \o SubSeq(o, Len(got) + 1, n)
    BY <1>1, <1>3, SMTT(30), ZenonT(30) DEF Into
  <2>2. o \in File /\ Len(o) = n
    BY <2>1 DEF File
  <2>3. SubSeq(o, Len(got) + 1, n) \in File /\ Len(SubSeq(o, Len(got) + 1, n)) = n - Len(got)
    BY <1>1, <1>3, <2>2 DEF File
  <2> QED  BY <1>1, <2>1, <2>3, ConcatFile
<1> QED  BY <1>1, <1>2, <1>3

(* A variable for which there are bytes is filled with them.                 *)
LEMMA IntoFull ==
    ASSUME NEW f \in File, NEW k \in Nat, NEW n \in Nat, k + n <= Len(f), NEW old, NEW x \in Into(old, Slice(f, k, n), n)
    PROVE  x = Slice(f, k, n)
<1>1. PICK s : s = Slice(f, k, n)
  OBVIOUS
<1>2. s \in File /\ Len(s) = n
  BY <1>1, SliceFile
<1>3. SubSeq(s, 1, n) = s
  BY <1>2 DEF File
<1> QED  BY <1>1, <1>2, <1>3 DEF Into

(* A field is a natural number.                                              *)
LEMMA FieldIs == ASSUME NEW s \in File PROVE LE(s) \in Nat /\ BE(s) \in Nat
<1>1. ASSUME NEW i \in Int PROVE Digit(s, i) \in Nat
  BY FileBytes DEF Digit
<1>2. ASSUME NEW a \in Nat, NEW b \in Nat PROVE a + Base * b \in Nat
  <2>1. PICK c \in Nat : c = Base * b
    BY BaseAssumption
  <2> QED  BY <2>1
<1>3. Len(s) \in Int
  BY DEF File
<1>4. LE(s) \in Nat
  <2>1. Digit(s, 1) \in Nat /\ Digit(s, 2) \in Nat /\ Digit(s, 3) \in Nat /\ Digit(s, 4) \in Nat
    BY <1>1
  <2>2. PICK a \in Nat : a = Digit(s, 3) + Base * Digit(s, 4)
    BY <1>2, <2>1
  <2>3. PICK b \in Nat : b = Digit(s, 2) + Base * a
    BY <1>2, <2>1
  <2>4. Digit(s, 1) + Base * b \in Nat
    BY <1>2, <2>1
  <2> QED  BY <2>2, <2>3, <2>4 DEF LE
<1>5. BE(s) \in Nat
  <2>1. PICK n \in Int : n = Len(s)
    BY <1>3
  <2>2. Digit(s, n) \in Nat /\ Digit(s, n - 1) \in Nat /\ Digit(s, n - 2) \in Nat /\ Digit(s, n - 3) \in Nat
    BY <1>1
  <2>3. PICK a \in Nat : a = Digit(s, n - 2) + Base * Digit(s, n - 3)
    BY <1>2, <2>2
  <2>4. PICK b \in Nat : b = Digit(s, n - 1) + Base * a
    BY <1>2, <2>2
  <2>5. Digit(s, n) + Base * b \in Nat
    BY <1>2, <2>2
  <2> QED  BY <2>1, <2>3, <2>4, <2>5 DEF BE
<1> QED  BY <1>4, <1>5

(* A buffer for the largest count of one byte keeps its size, and the bytes  *)
(* read into it are the first.                                               *)
LEMMA BufferRead ==
    ASSUME NEW m \in File, Len(m) = Base - 1, NEW d \in File, NEW n \in Byte, Len(d) <= n
    PROVE  /\ Put(m, 0, d) \in File /\ Len(Put(m, 0, d)) = Base - 1
           /\ SubSeq(Put(m, 0, d), 1, n) \in File /\ (Len(d) = n => SubSeq(Put(m, 0, d), 1, n) = d)
<1>1. Len(d) \in Nat /\ n \in Nat /\ n <= Base - 1 /\ Base \in Nat
  BY BaseAssumption DEF File, Byte
<1>2. Put(m, 0, d) \in File /\ Len(Put(m, 0, d)) = Base - 1
  <2>1. CASE d = <<>>
    BY <2>1 DEF Put
  <2>2. CASE d # <<>>
    BY <1>1, <2>2, BufferStart
  <2> QED  BY <2>1, <2>2
<1>3. SubSeq(Put(m, 0, d), 1, n) \in File
  BY <1>1, <1>2 DEF File
<1>4. ASSUME Len(d) = n PROVE SubSeq(Put(m, 0, d), 1, n) = d
  <2>1. CASE d = <<>>
    BY <1>1, <1>2, <1>4, <2>1 DEF File
  <2>2. CASE d # <<>>
    BY <1>1, <1>4, <2>2, BufferStart
  <2> QED  BY <2>1, <2>2
<1> QED  BY <1>2, <1>3, <1>4

-----------------------------------------------------------------------------
(* PPF: the locals, of which pos has nothing before the first record.        *)
PpfPos == {p \in File : Len(p) = PosLen}
PpfMem == {m \in File : Len(m) = Base - 1}
PpfLocals == [count : Nat, pos : PpfPos \cup {<<>>}, anz : Byte, mem : PpfMem, binblock : File, ppfblock : File,
              undo : Byte, spill : Spills]
PpfType == /\ job \in Jobs("ppf") /\ out \in File /\ disk \in File /\ at \in Nat /\ ret \in Int
           /\ loc \in PpfLocals

(* Between two turns of a loop the records before the k-th are laid over the *)
(* ROM, and count is what the loop has still to read.                        *)
PpfReady(k) == /\ k \in 1 .. Len(job.recs) /\ at = job.pos[k] /\ out = job.layers[k]
               /\ loc.count = job.pos[Len(job.recs) + 1] - job.pos[k]
PpfFor == job.whole /\ job.fits /\ loc.spill = "dead"
PpfFresh == out = job.rom /\ loc.ppfblock = loc.binblock
PpfPlace == /\ pc = "PPFVersion" => PpfFresh
            /\ job.magic = "PPF1" /\ pc = "ApplyPPF1Patch" => PpfFresh
            /\ job.magic = "PPF1" /\ pc = "Record1" => \E k \in 1 .. Len(job.recs) : PpfReady(k)
            /\ job.magic = "PPF2" /\ pc = "ApplyPPF2Patch" => PpfFresh
            /\ job.magic = "PPF2" /\ pc = "Record2" => \E k \in 1 .. Len(job.recs) : PpfReady(k)
            /\ job.magic = "PPF2" => pc \notin {"ApplyPPF1Patch", "Record1"}
            /\ job.magic = "PPF3" /\ pc = "ApplyPPF3Patch" => PpfFresh
            /\ job.magic = "PPF3" /\ pc = "Record3" => (\E k \in 1 .. Len(job.recs) : PpfReady(k)) /\ loc.undo = Flag(job, 2)
            /\ job.magic = "PPF3" => pc \in {"PPFVersion", "ApplyPPF3Patch", "Record3", "done"}
PpfIInv == PpfType /\ (PpfFor => PpfPlace) /\ PpfOwnPass

(* The call's files and the constants.                                       *)
LEMMA PpfGiven ==
    ASSUME job \in Jobs("ppf")
    PROVE  /\ job.fmt = "ppf" /\ job.rom \in File /\ job.patch \in File /\ Len(job.patch) \in Nat
           /\ (job.whole => PpfMade(job)) /\ (job.fits => PpfFits(job))
           /\ HeadLen \in Nat /\ FlagLen \in Nat /\ BlockLen \in Nat /\ PosLen \in Nat /\ OffsetLen \in Nat
           /\ FlagLen > 2 /\ OffsetLen >= PosLen /\ PosLen > 0
           /\ Turns \in Nat /\ Turns > 0 /\ Len(job.patch) < Turns
           /\ (\A n \in 0 .. Len(job.patch) : Wrap(n) = n) /\ (\A n \in Int : Wrap(n) \in Nat)
<1>1. job.fmt = "ppf" /\ job.rom \in File /\ job.patch \in File /\ Len(job.patch) \in Nat
  BY JobFormat DEF AllFormats, File
<1>2. (job.whole => PpfMade(job)) /\ (job.fits => PpfFits(job))
  BY PpfMadeAssumption
<1>3. /\ HeadLen \in Nat /\ FlagLen \in Nat /\ BlockLen \in Nat /\ PosLen \in Nat /\ OffsetLen \in Nat
      /\ FlagLen > 2 /\ OffsetLen >= PosLen /\ PosLen > 0 /\ Turns \in Nat /\ Turns > 0 /\ Len(job.patch) < Turns
  BY PpfAssumption
<1>4. (\A n \in 0 .. Len(job.patch) : Wrap(n) = n) /\ (\A n \in Int : Wrap(n) \in Nat)
  BY <1>1, <1>3 DEF Wrap
<1> QED  BY <1>1, <1>2, <1>3, <1>4

(* A byte of the patch, 0 behind its end.                                    *)
LEMMA PatchByteIs == ASSUME NEW f \in File, NEW k \in Nat
                     PROVE  PatchByte(f, k) \in Byte /\ (k < Len(f) => PatchByte(f, k) = f[k + 1])
<1>1. 0 \in Byte
  BY BaseAssumption DEF Byte
<1>2. CASE k < Len(f)
  <2>1. k + 1 \in 1 .. Len(f)
    BY <1>2 DEF File
  <2> QED  BY <1>2, <2>1, FileBytes DEF PatchByte
<1> QED  BY <1>1, <1>2 DEF PatchByte

(* What a file_id.diz takes up.                                              *)
LEMMA PpfId == ASSUME NEW f \in File, NEW v \in {2, 3} PROVE IdPart(f, v) \in Nat
<1>1. LenIdx(v) \in 1 .. 4 /\ IdOver \in Nat /\ Len(IdMagic) \in Nat /\ Len(f) \in Nat
  BY PpfAssumption DEF File
<1>2. ASSUME Len(f) >= LenIdx(v) + Len(IdMagic) PROVE LE(Slice(f, Len(f) - LenIdx(v), LenIdx(v))) \in Nat
  <2>1. Len(f) - LenIdx(v) \in Nat /\ LenIdx(v) \in Nat
    BY <1>1, <1>2
  <2> QED  BY <2>1, AnySlice, FieldIs
<1>3. ShowFileId(f, v) \in Nat
  BY <1>2 DEF ShowFileId
<1> QED  BY <1>1, <1>3 DEF IdPart

(* What the stream of an intact patch holds at record k.                     *)
PpfWidth == IF job.magic = "PPF3" THEN OffsetLen ELSE PosLen
PpfHolds(k, r, p) ==
    /\ p + 1 + Len(r.data) <= Len(job.patch) /\ job.pos[k] + PosLen <= Len(job.patch)
    /\ LE(Slice(job.patch, job.pos[k], PosLen)) = r.offset
    /\ job.patch[p + 1] = Len(r.data) /\ Slice(job.patch, p + 1, Len(r.data)) = r.data
    /\ job.pos[k + 1] = p + 1 + Len(r.data) + IF Flag(job, 2) # 0 THEN Len(r.data) ELSE 0
LEMMA PpfEnd ==
    ASSUME job \in Jobs("ppf"), job.whole
    PROVE  /\ Len(job.recs) \in Nat /\ Len(job.recs) > 0 /\ job.pos[1] \in Nat /\ job.layers[1] = job.rom
           /\ job.pos[1] < job.pos[Len(job.recs) + 1]
           /\ job.pos[Len(job.recs) + 1] \in 0 .. Len(job.patch)
           /\ job.magic = "PPF1" => job.pos[1] = HeadLen /\ job.pos[Len(job.recs) + 1] = Len(job.patch)
           /\ job.magic = "PPF2" => /\ job.pos[1] = HeadLen + FlagLen + BlockLen
                                    /\ job.pos[Len(job.recs) + 1] = Len(job.patch) - IdPart(job.patch, 2)
           /\ job.magic = "PPF3" => /\ job.pos[1] = HeadLen + FlagLen + IF Flag(job, 1) # 0 THEN BlockLen ELSE 0
                                    /\ job.pos[Len(job.recs) + 1] = Len(job.patch) - IdPart(job.patch, 3)
<1>1. PpfMade(job) /\ job.patch \in File /\ Len(job.patch) \in Nat
  BY PpfGiven
<1>2. job.recs \in Seq([offset : Nat, data : File]) /\ Len(job.recs) > 0 /\ Laid(job, job.rom)
  BY <1>1 DEF PpfMade
<1>3. PICK n \in Nat : n = Len(job.recs)
  BY <1>2
<1>4. 1 \in 1 .. n /\ n + 1 \in 1 .. (n + 1) /\ 1 \in 1 .. (n + 1)
  BY <1>2, <1>3
<1>5. job.pos[1] \in Nat /\ job.pos[n + 1] \in Nat /\ job.layers[1] = job.rom
  BY <1>2, <1>3, <1>4 DEF Laid
<1>6. job.pos[1] < job.pos[n + 1]
  BY <1>1, <1>3, <1>4 DEF PpfMade
<1>7. \A v \in {2, 3} : IdPart(job.patch, v) \in Nat
  BY <1>1, PpfId
<1>8. job.pos[n + 1] = Len(job.patch) - IF job.magic = "PPF1" THEN 0 ELSE IdPart(job.patch, IF job.magic = "PPF2" THEN 2 ELSE 3)
  BY <1>1, <1>3 DEF PpfMade
<1>9. job.pos[n + 1] <= Len(job.patch)
  BY <1>1, <1>7, <1>8
<1>10. job.pos[1] = HeadLen + IF job.magic = "PPF1" THEN 0 ELSE FlagLen + IF Checked(job) THEN BlockLen ELSE 0
  BY <1>1 DEF PpfMade
<1>11. job.magic = "PPF1" => job.pos[1] = HeadLen /\ job.pos[n + 1] = Len(job.patch)
  BY <1>1, <1>8, <1>10, PpfGiven
<1>12. job.magic = "PPF2" => /\ job.pos[1] = HeadLen + FlagLen + BlockLen
                             /\ job.pos[n + 1] = Len(job.patch) - IdPart(job.patch, 2)
  BY <1>8, <1>10, PpfGiven DEF Checked
<1>13. job.magic = "PPF3" => /\ job.pos[1] = HeadLen + FlagLen + IF Flag(job, 1) # 0 THEN BlockLen ELSE 0
                             /\ job.pos[n + 1] = Len(job.patch) - IdPart(job.patch, 3)
  <2> SUFFICES ASSUME job.magic = "PPF3" PROVE /\ job.pos[1] = HeadLen + FlagLen + IF Flag(job, 1) # 0 THEN BlockLen ELSE 0
                                               /\ job.pos[n + 1] = Len(job.patch) - IdPart(job.patch, 3)
    OBVIOUS
  <2>1. job.pos[n + 1] = Len(job.patch) - IdPart(job.patch, 3)
    BY <1>8
  <2>2. PICK b \in Nat : b = IF Flag(job, 1) # 0 THEN BlockLen ELSE 0
    BY PpfGiven
  <2>3. job.pos[1] = HeadLen + (FlagLen + b)
    BY <1>10, <2>2 DEF Checked
  <2>4. HeadLen + (FlagLen + b) = HeadLen + FlagLen + b
    BY PpfGiven
  <2> QED  BY <2>1, <2>2, <2>3, <2>4
<1> QED  BY <1>1, <1>2, <1>3, <1>5, <1>6, <1>9, <1>11, <1>12, <1>13

(* The record at which a loop stands.                                        *)
LEMMA PpfNextRecord ==
    ASSUME job \in Jobs("ppf"), job.whole, NEW k \in 1 .. Len(job.recs), NEW r, r = job.recs[k],
           NEW p, p = job.pos[k] + PpfWidth
    PROVE  /\ job.pos[k] \in Nat /\ p \in Nat /\ r.data \in File /\ Len(r.data) \in Nat /\ r.offset \in Nat
           /\ job.pos[k] < job.pos[Len(job.recs) + 1] /\ job.pos[k + 1] \in Nat
           /\ job.pos[k + 1] <= job.pos[Len(job.recs) + 1]
           /\ job.layers[k] \in File /\ job.layers[k + 1] = Put(job.layers[k], r.offset, r.data)
           /\ PpfHolds(k, r, p)
<1>1. PpfMade(job) /\ job.patch \in File /\ Len(job.patch) \in Nat
  BY PpfGiven
<1>2. job.recs \in Seq([offset : Nat, data : File]) /\ Laid(job, job.rom)
  BY <1>1 DEF PpfMade
<1>3. r \in [offset : Nat, data : File]
  BY <1>2, ElementOfSeq
<1>4. r.data \in File /\ Len(r.data) \in Nat /\ r.offset \in Nat
  BY <1>3 DEF File
<1>5. PICK n \in Nat : n = Len(job.recs)
  BY <1>2
<1>6. k \in 1 .. n /\ k \in 1 .. (n + 1) /\ k + 1 \in 1 .. (n + 1)
  BY <1>5
<1>7. job.pos[k] \in Nat /\ job.pos[k + 1] \in Nat /\ job.layers[k] \in File /\ job.layers[k + 1] = Put(job.layers[k], r.offset, r.data)
  BY <1>2, <1>5, <1>6 DEF Laid
<1>8. /\ job.pos[k] < job.pos[n + 1] /\ job.pos[k + 1] <= job.pos[n + 1]
      /\ job.pos[k + 1] = p + 1 + Len(r.data) + IF Flag(job, 2) # 0 THEN Len(r.data) ELSE 0
      /\ LE(Slice(job.patch, job.pos[k], PosLen)) = r.offset
      /\ job.patch[p + 1] = Len(r.data) /\ Slice(job.patch, p + 1, Len(r.data)) = r.data
  BY <1>1, <1>5, <1>6, Zenon DEF PpfMade, PpfWidth
<1>9. PpfWidth \in Nat /\ PpfWidth >= PosLen /\ PosLen \in Nat
  BY PpfGiven DEF PpfWidth
<1>10. p \in Nat /\ p >= job.pos[k] + PosLen
  BY <1>7, <1>9, SMTT(30), ZenonT(30)
<1>11. job.pos[k + 1] <= Len(job.patch)
  BY <1>1, <1>5, <1>7, <1>8, PpfEnd, SMTT(30), ZenonT(30)
<1>12. PICK l \in Nat, q \in Nat, m \in Nat : l = Len(r.data) /\ q = p /\ m = Len(job.patch)
  BY <1>1, <1>4, <1>10
<1>13. p + 1 + Len(r.data) <= Len(job.patch) /\ job.pos[k] + PosLen <= Len(job.patch)
  <2>1. PICK e \in Nat : e = IF Flag(job, 2) # 0 THEN l ELSE 0
    OBVIOUS
  <2>2. job.pos[k + 1] = q + 1 + l + e
    BY <1>8, <1>12, <2>1
  <2>3. q + 1 + l + e <= m
    BY <1>11, <1>12, <2>2
  <2>4. q + 1 + l <= m
    BY <2>3
  <2>5. PICK u \in Nat : u = job.pos[k] + PosLen
    BY <1>7, <1>9
  <2>6. u <= q
    BY <1>10, <1>12, <2>5
  <2>7. u <= m
    BY <2>4, <2>6
  <2> QED  BY <1>12, <2>4, <2>5, <2>7
<1> QED  BY <1>4, <1>5, <1>7, <1>8, <1>10, <1>13 DEF PpfHolds

(* What one turn of a loop does: the data d of a record of a bytes, read     *)
(* into mem, are written at pos, and left is what then is still to be read.  *)
PpfTurn(pos, a, d, left) ==
    /\ pos \in PpfPos /\ a \in Byte /\ d \in File /\ Len(d) <= a
    /\ loc'.mem = Put(loc.mem, 0, d) /\ loc'.count = Wrap(left)
    /\ out' = Put(out, LE(pos), SubSeq(Put(loc.mem, 0, d), 1, a)) /\ disk' = out
PpfReads(k, w, pos, a, d) ==
    k + w < Len(job.patch) => /\ pos = Slice(job.patch, k, PosLen)
                              /\ a = job.patch[k + w + 1] /\ d = Slice(job.patch, k + w + 1, a)

(* It keeps the types.                                                       *)
LEMMA PpfTurnType ==
    ASSUME PpfType, NEW pos, NEW a, NEW d, NEW left \in Int, PpfTurn(pos, a, d, left)
    PROVE  /\ out' \in File /\ disk' \in File /\ loc'.mem \in PpfMem /\ loc'.count \in Nat
           /\ (Len(d) = a => out' = Put(out, LE(pos), d))
<1>1. job \in Jobs("ppf") /\ out \in File /\ loc.mem \in File /\ Len(loc.mem) = Base - 1
  BY DEF PpfType, PpfLocals, PpfMem
<1>2. PICK m : m = Put(loc.mem, 0, d)
  OBVIOUS
<1>3. /\ m \in File /\ Len(m) = Base - 1
      /\ SubSeq(m, 1, a) \in File /\ (Len(d) = a => SubSeq(m, 1, a) = d)
  BY <1>1, <1>2, BufferRead DEF PpfTurn
<1>4. LE(pos) \in Nat
  BY FieldIs DEF PpfTurn, PpfPos
<1>5. out' \in File
  BY <1>1, <1>2, <1>3, <1>4, PutGrows DEF PpfTurn
<1>6. loc'.count \in Nat
  BY <1>1, PpfGiven DEF PpfTurn
<1> QED  BY <1>1, <1>2, <1>3, <1>5, <1>6 DEF PpfTurn, PpfMem

(* It lays the next record over the output, and count reaches 0 with the     *)
(* last one.                                                                 *)
LEMMA PpfTurnLays ==
    ASSUME PpfType, job.whole, NEW k, PpfReady(k), job' = job, NEW pos, NEW a, NEW d,
           PpfReads(job.pos[k], PpfWidth, pos, a, d),
           PpfTurn(pos, a, d, job.pos[Len(job.recs) + 1] - job.pos[k + 1]), at' = job.pos[k + 1]
    PROVE  /\ loc'.count # 0 => PpfReady(k + 1)'
           /\ loc'.count = 0 => out' = job.want
<1>1. job \in Jobs("ppf") /\ k \in 1 .. Len(job.recs) /\ at = job.pos[k] /\ out = job.layers[k]
  BY DEF PpfType, PpfReady
<1>2. PICK r, p : r = job.recs[k] /\ p = job.pos[k] + PpfWidth
  OBVIOUS
<1>3. /\ job.pos[k] \in Nat /\ p \in Nat /\ r.data \in File /\ Len(r.data) \in Nat
      /\ job.pos[k + 1] \in Nat /\ job.pos[k + 1] <= job.pos[Len(job.recs) + 1]
      /\ job.layers[k + 1] = Put(job.layers[k], r.offset, r.data)
  BY <1>1, <1>2, PpfNextRecord
<1>4. PpfHolds(k, r, p)
  BY <1>1, <1>2, PpfNextRecord
<1>5. Len(job.recs) \in Nat /\ job.pos[Len(job.recs) + 1] \in 0 .. Len(job.patch) /\ Len(job.patch) \in Nat
  BY <1>1, PpfEnd, PpfGiven
<1>6. p < Len(job.patch)
  <2>1. PICK l \in Nat, q \in Nat, m \in Nat : l = Len(r.data) /\ q = p /\ m = Len(job.patch)
    BY <1>3, <1>5
  <2>2. q + 1 + l <= m
    BY <1>4, <2>1 DEF PpfHolds
  <2>3. q < m
    BY <2>2
  <2> QED  BY <2>1, <2>3
<1>7. a = Len(r.data) /\ d = r.data /\ LE(pos) = r.offset
  BY <1>2, <1>4, <1>6 DEF PpfHolds, PpfReads
<1>8. PICK left \in Nat : left = job.pos[Len(job.recs) + 1] - job.pos[k + 1]
  BY <1>3, <1>5
<1>9. out' = job.layers[k + 1]
  BY <1>1, <1>3, <1>7, <1>8, PpfTurnType
<1>10. loc'.count = left
  <2>1. left \in 0 .. Len(job.patch)
    BY <1>3, <1>5, <1>8
  <2> QED  BY <1>1, <1>8, <2>1, PpfGiven DEF PpfTurn
<1>11. CASE k = Len(job.recs)
  <2>1. left = 0
    BY <1>3, <1>8, <1>11
  <2>2. job.layers[k + 1] = job.want
    BY <1>1, <1>11, PpfGiven DEF PpfMade, Laid
  <2> QED  BY <1>9, <1>10, <2>1, <2>2
<1>12. CASE k # Len(job.recs)
  <2>1. k + 1 \in 1 .. Len(job.recs)
    BY <1>1, <1>5, <1>12
  <2>2. job.pos[k + 1] < job.pos[Len(job.recs) + 1]
    BY <1>1, <2>1, PpfNextRecord
  <2>3. left # 0
    BY <1>3, <1>5, <1>8, <2>2
  <2>4. job'.layers[k + 1] = out' /\ at' = job'.pos[k + 1] /\ k + 1 \in 1 .. Len(job'.recs)
        /\ loc'.count = job'.pos[Len(job'.recs) + 1] - job'.pos[k + 1]
    BY <1>8, <1>9, <1>10, <2>1
  <2>5. PpfReady(k + 1)'
    BY <2>4 DEF PpfReady
  <2> QED  BY <1>10, <2>3, <2>5
<1> QED  BY <1>11, <1>12

Ppf12Does(pos, a, d) ==
    /\ PpfTurn(pos, a, d, loc.count - (PosLen + 1) - a) /\ PpfReads(at, PosLen, pos, a, d)
    /\ loc' = [loc EXCEPT !.pos = pos, !.anz = a, !.mem = Put(loc.mem, 0, d),
                          !.count = Wrap(loc.count - (PosLen + 1) - a)]
    /\ at' = Wrap(at + PosLen + 1 + a) /\ UNCHANGED <<job, ret>>
    /\ \/ loc'.count # 0 /\ pc' = pc
       \/ loc'.count = 0 /\ pc' = IF pc = "Record1" THEN "ApplyPPF2Patch" ELSE "ApplyPPF3Patch"

(* A turn of the loops of ApplyPPF1Patch and ApplyPPF2Patch.                 *)
LEMMA Ppf12Turn ==
    ASSUME PpfType, Record12
    PROVE  \E pos, a, d : Ppf12Does(pos, a, d)
<1>1. PICK pos \in Into(loc.pos, Slice(job.patch, at, PosLen), PosLen),
           size \in Into(IF loc.pos = <<>> THEN <<>> ELSE <<loc.anz>>, Slice(job.patch, at + PosLen, 1), 1) :
        LET anz == size[1]
            mem == Put(loc.mem, 0, Slice(job.patch, at + PosLen + 1, anz))
            count == Wrap(loc.count - (PosLen + 1) - anz)
        IN /\ loc' = [loc EXCEPT !.pos = pos, !.anz = anz, !.mem = mem, !.count = count]
           /\ out' = Put(out, LE(pos), SubSeq(mem, 1, anz)) /\ disk' = out
           /\ at' = Wrap(at + PosLen + 1 + anz)
           /\ \/ count # 0 /\ pc' = pc
              \/ count = 0 /\ pc' = IF pc = "Record1" THEN "ApplyPPF2Patch" ELSE "ApplyPPF3Patch"
  BY DEF Record12
<1>2. PICK a : a = size[1]
  OBVIOUS
<1>3. PICK d : d = Slice(job.patch, at + PosLen + 1, a)
  OBVIOUS
<1>4. PICK count : count = Wrap(loc.count - (PosLen + 1) - a)
  OBVIOUS
<1>5. /\ loc' = [loc EXCEPT !.pos = pos, !.anz = a, !.mem = Put(loc.mem, 0, d), !.count = count]
      /\ out' = Put(out, LE(pos), SubSeq(Put(loc.mem, 0, d), 1, a)) /\ disk' = out
      /\ at' = Wrap(at + PosLen + 1 + a)
      /\ \/ count # 0 /\ pc' = pc
         \/ count = 0 /\ pc' = IF pc = "Record1" THEN "ApplyPPF2Patch" ELSE "ApplyPPF3Patch"
  BY <1>1, <1>2, <1>3, <1>4
<1>6. /\ job.patch \in File /\ at \in Nat /\ PosLen \in Nat /\ Len(job.patch) \in Nat
      /\ loc.pos = <<>> \/ (loc.pos \in File /\ Len(loc.pos) = PosLen)
      /\ loc.anz \in Byte
  BY PpfGiven DEF PpfType, PpfLocals, PpfPos
<1>7. pos \in File /\ Len(pos) = PosLen
  BY <1>6, AnySlice, IntoFile
<1>8. at + PosLen \in Nat /\ 1 \in Nat
  BY <1>6
<1>9. PICK old : old = IF loc.pos = <<>> THEN <<>> ELSE <<loc.anz>>
  OBVIOUS
<1>10. old = <<>> \/ (old \in File /\ Len(old) = 1)
  <2>1. <<loc.anz>> \in File /\ Len(<<loc.anz>>) = 1
    BY <1>6 DEF File
  <2> QED  BY <1>9, <2>1
<1>11. size \in File /\ Len(size) = 1
  <2>1. PICK got \in File : got = Slice(job.patch, at + PosLen, 1)
    BY <1>6, <1>8, AnySlice
  <2>2. size \in Into(old, got, 1) /\ 1 \in Nat
    BY <1>1, <1>9, <2>1
  <2> QED  BY <1>10, <2>2, IntoFile, ZenonT(40), SMTT(30)
<1>12. a \in Byte /\ a \in Nat
  BY <1>2, <1>11, FileBytes
<1>13. d \in File /\ Len(d) <= a
  <2>1. at + PosLen + 1 \in Nat
    BY <1>8
  <2>2. Slice(job.patch, at + PosLen + 1, a) \in File /\ Len(Slice(job.patch, at + PosLen + 1, a)) \in 0 .. a
    BY <1>6, <1>12, <2>1, AnySlice
  <2> QED  BY <1>3, <1>12, <2>2
<1>14. loc'.mem = Put(loc.mem, 0, d) /\ loc'.count = count
  BY <1>5 DEF PpfType, PpfLocals
<1>15. PpfTurn(pos, a, d, loc.count - (PosLen + 1) - a)
  BY <1>4, <1>5, <1>7, <1>12, <1>13, <1>14 DEF PpfTurn, PpfPos
<1>16. at + PosLen < Len(job.patch) => pos = Slice(job.patch, at, PosLen)
  BY <1>6, IntoFull
<1>17. at + PosLen < Len(job.patch) => a = job.patch[at + PosLen + 1]
  BY <1>2, <1>6, <1>8, OneByte
<1>18. PpfReads(at, PosLen, pos, a, d)
  BY <1>3, <1>16, <1>17 DEF PpfReads
<1>19. UNCHANGED <<job, ret>>
  BY DEF Record12
<1> QED  BY <1>4, <1>5, <1>14, <1>15, <1>18, <1>19 DEF Ppf12Does

Ppf3Does(pos, a, d, undo, left, more) ==
    /\ more = (IF undo # 0 THEN a ELSE 0) /\ (loc.spill = "dead" => left = loc.count /\ undo = loc.undo)
    /\ PpfTurn(pos, a, d, left - (OffsetLen + 1) - a - more) /\ PpfReads(at, OffsetLen, pos, a, d)
    /\ loc' = [loc EXCEPT !.pos = pos, !.anz = a, !.mem = Put(loc.mem, 0, d),
                          !.count = Wrap(left - (OffsetLen + 1) - a - more), !.undo = undo]
    /\ at' \in Nat
    /\ at + OffsetLen < Len(job.patch) /\ at + OffsetLen + 1 + Len(d) + more <= Len(job.patch)
         => at' = at + OffsetLen + 1 + Len(d) + more
    /\ job' = job
    /\ \/ loc'.count # 0 /\ pc' = pc /\ ret' = ret
       \/ loc'.count = 0 /\ pc' = "done" /\ ret' = 0

(* A turn of the loop of ApplyPPF3Patch.                                     *)
LEMMA Ppf3Turn ==
    ASSUME PpfType, Record3
    PROVE  \E pos, a, d : \E undo \in Byte, left \in Nat, more \in Nat : Ppf3Does(pos, a, d, undo, left, more)
<1>1. /\ job.patch \in File /\ at \in Nat /\ PosLen \in Nat /\ OffsetLen \in Nat /\ OffsetLen >= PosLen
      /\ loc.pos = <<>> \/ (loc.pos \in File /\ Len(loc.pos) = PosLen)
      /\ loc.anz \in Byte /\ loc.count \in Nat /\ loc.undo \in Byte
  BY PpfGiven DEF PpfType, PpfLocals, PpfPos
<1>m. PICK len \in Nat : len = Len(job.patch)
  BY PpfGiven DEF PpfType
<1>2. PICK got : got = Slice(job.patch, at, OffsetLen)
  OBVIOUS
<1>3. got \in File /\ Len(got) \in 0 .. OffsetLen
  BY <1>1, <1>2, AnySlice
<1>4. PICK high : high = IF Len(got) > PosLen THEN SubSeq(got, PosLen + 1, Len(got)) ELSE <<>>
  OBVIOUS
<1>5. high \in File
  BY <1>1, <1>3, <1>4 DEF File
<1>6. PICK undo : undo = IF loc.spill = "undo" /\ high # <<>> THEN high[1] ELSE loc.undo
  OBVIOUS
<1>7. undo \in Byte
  <2>1. high # <<>> => 1 \in 1 .. Len(high)
    BY <1>5, EmptySeq DEF File
  <2> QED  BY <1>1, <1>5, <1>6, <2>1, FileBytes
<1>8. PICK left : left = IF loc.spill = "count" /\ high # <<>> THEN LE(high) ELSE loc.count
  OBVIOUS
<1>9. left \in Nat
  BY <1>1, <1>5, <1>8, FieldIs
<1>10. PICK k \in Nat : k = at + Len(got)
  BY <1>1, <1>3
<1>11. PICK a : a = IF k < Len(job.patch) THEN PatchByte(job.patch, k) ELSE loc.anz
  OBVIOUS
<1>12. a \in Byte /\ a \in Nat
  <2>1. a \in Byte
    BY <1>1, <1>10, <1>11, PatchByteIs
  <2> QED  BY <2>1, BaseAssumption DEF Byte
<1>13. PICK d : d = Slice(job.patch, k + 1, a)
  OBVIOUS
<1>14. d \in File /\ Len(d) <= a /\ Len(d) \in Nat
  <2>1. k + 1 \in Nat
    OBVIOUS
  <2>2. d \in File /\ Len(d) \in 0 .. a
    BY <1>1, <1>12, <1>13, <2>1, AnySlice
  <2> QED  BY <1>12, <2>2
<1>15. PICK more \in Nat : more = IF undo # 0 THEN a ELSE 0
  BY <1>12
<1>16. PICK count : count = Wrap(left - (OffsetLen + 1) - a - more)
  OBVIOUS
<1>17. PICK pos \in Into(loc.pos, got, PosLen) :
         /\ loc' = [loc EXCEPT !.pos = pos, !.anz = a, !.mem = Put(loc.mem, 0, d), !.count = count, !.undo = undo]
         /\ out' = Put(out, LE(pos), SubSeq(Put(loc.mem, 0, d), 1, a)) /\ disk' = out
  BY <1>2, <1>4, <1>6, <1>8, <1>10, <1>11, <1>13, <1>15, <1>16, ZenonT(40), SMTT(30) DEF Record3
<1>18. pos \in File /\ Len(pos) = PosLen
  BY <1>1, <1>3, <1>17, IntoFile
<1>19. loc'.mem = Put(loc.mem, 0, d) /\ loc'.count = count
  BY <1>17 DEF PpfType, PpfLocals
<1>20. PpfTurn(pos, a, d, left - (OffsetLen + 1) - a - more)
  BY <1>12, <1>14, <1>16, <1>17, <1>18, <1>19 DEF PpfTurn, PpfPos
<1>21. PICK next \in Nat : next = (IF k < Len(job.patch) THEN k + 1 ELSE k) + Len(d) + more
  <2>1. (IF k < Len(job.patch) THEN k + 1 ELSE k) \in Nat
    OBVIOUS
  <2> QED  BY <1>14, <2>1
<1>22. at' = IF next < Len(job.patch) THEN next ELSE Len(job.patch)
  BY <1>2, <1>4, <1>6, <1>10, <1>11, <1>13, <1>15, <1>21, Zenon DEF Record3
<1>23. at' \in Nat
  BY <1>m, <1>22
<1>24. ASSUME at + OffsetLen < Len(job.patch)
       PROVE  /\ pos = Slice(job.patch, at, PosLen) /\ a = job.patch[at + OffsetLen + 1]
              /\ d = Slice(job.patch, at + OffsetLen + 1, a) /\ k = at + OffsetLen
  <2>1. Len(got) = OffsetLen
    BY <1>1, <1>2, <1>m, <1>24, SliceFile
  <2>2. k = at + OffsetLen /\ k < Len(job.patch)
    BY <1>10, <1>24, <2>1
  <2>3. a = job.patch[k + 1]
    BY <1>1, <1>11, <2>2, PatchByteIs
  <2>4. pos = SubSeq(got, 1, PosLen)
    BY <1>1, <1>17, <2>1 DEF Into
  <2>5. at + PosLen <= Len(job.patch)
    BY <1>1, <1>m, <1>24
  <2>6. Slice(job.patch, at, PosLen) = SubSeq(job.patch, at + 1, at + PosLen)
    BY <1>1, <1>m, <2>5 DEF Slice
  <2>7. got = SubSeq(job.patch, at + 1, at + OffsetLen)
    BY <1>1, <1>2, <1>m, <1>24 DEF Slice
  <2>8. SubSeq(SubSeq(job.patch, at + 1, at + OffsetLen), 1, PosLen) = SubSeq(job.patch, at + 1, at + PosLen)
    <3>1. /\ pos \in File /\ Len(pos) = PosLen
          /\ Slice(job.patch, at, PosLen) \in File /\ Len(Slice(job.patch, at, PosLen)) = PosLen
      BY <1>1, <1>18, <2>5, SliceFile
    <3>2. ASSUME NEW i \in 1 .. PosLen PROVE pos[i] = Slice(job.patch, at, PosLen)[i]
      <4>1. Slice(job.patch, at, PosLen)[i] = job.patch[at + i]
        BY <1>1, <2>5, SliceBytes
      <4>2. i \in 1 .. OffsetLen /\ at + OffsetLen <= Len(job.patch)
        BY <1>1, <1>m, <1>24
      <4>3. got[i] = job.patch[at + i]
        BY <1>1, <1>2, <4>2, SliceBytes
      <4>4. pos[i] = got[i]
        BY <1>1, <1>3, <2>1, <2>4, <4>2 DEF File
      <4> QED  BY <4>1, <4>3, <4>4
    <3>3. pos = Slice(job.patch, at, PosLen)
      BY <3>1, <3>2, SameFile
    <3> QED  BY <2>4, <2>6, <2>7, <3>3
  <2> QED  BY <1>13, <2>2, <2>3, <2>4, <2>6, <2>7, <2>8
<1>25. PpfReads(at, OffsetLen, pos, a, d)
  BY <1>24 DEF PpfReads
<1>26. ASSUME at + OffsetLen < Len(job.patch), at + OffsetLen + 1 + Len(d) + more <= Len(job.patch)
       PROVE  at' = at + OffsetLen + 1 + Len(d) + more
  <2>1. k = at + OffsetLen /\ k < Len(job.patch)
    BY <1>24, <1>26
  <2>2. next = at + OffsetLen + 1 + Len(d) + more
    BY <1>21, <2>1
  <2> QED  BY <1>m, <1>22, <1>26, <2>2
<1>27. job' = job
  BY DEF Record3
<1>28. \/ count # 0 /\ pc' = pc /\ ret' = ret
       \/ count = 0 /\ pc' = "done" /\ ret' = 0
  <2>1. count = Wrap(left - (OffsetLen + 1) - a - IF undo # 0 THEN a ELSE 0)
    BY <1>15, <1>16
  <2> QED  BY <1>2, <1>4, <1>6, <1>8, <1>10, <1>11, <2>1, Zenon DEF Record3
<1> WITNESS pos, a, d
<1> WITNESS undo \in Byte, left \in Nat, more \in Nat
<1> QED  BY <1>6, <1>8, <1>15, <1>16, <1>17, <1>19, <1>20, <1>23, <1>25, <1>26, <1>27, <1>28 DEF Ppf3Does

(* The locals with which a loop starts.                                      *)
LEMMA PpfRecordsType ==
    ASSUME job \in Jobs("ppf"), NEW l \in PpfLocals, NEW k \in Nat, NEW id \in Nat
    PROVE  /\ Records(l, k, id) \in PpfLocals /\ Records(l, k, id).spill = l.spill
           /\ Records(l, k, id).count = Wrap(Len(job.patch) - k - id)
<1>1. Len(job.patch) - k - id \in Int
  BY PpfGiven
<1>2. PICK c \in Nat : c = Wrap(Len(job.patch) - k - id)
  BY <1>1, PpfGiven
<1>3. 0 \in Byte
  BY BaseAssumption DEF Byte
<1> QED  BY <1>2, <1>3 DEF Records, PpfLocals

(* The locals after the blocks have been read.                               *)
LEMMA PpfBlocks ==
    ASSUME PpfType, NEW image \in Byte
    PROVE  /\ ReadBlocks(image) \in PpfLocals /\ ReadBlocks(image).spill = loc.spill
           /\ PpfFresh /\ Slice(job.patch, HeadLen + FlagLen, BlockLen) = Slice(job.rom, BlockAt(image), BlockLen)
                => Valid(image)
<1>1. /\ job.patch \in File /\ out \in File /\ HeadLen + FlagLen \in Nat /\ BlockLen \in Nat /\ BlockAt(image) \in Nat
      /\ loc \in PpfLocals /\ loc.ppfblock \in File /\ loc.binblock \in File /\ 0 \in Nat
  BY PpfGiven, PpfAssumption DEF PpfType, PpfLocals
<1>2. PICK x \in File : x = Slice(job.patch, HeadLen + FlagLen, BlockLen)
  BY <1>1, AnySlice
<1>3. PICK y \in File : y = Slice(out, BlockAt(image), BlockLen)
  BY <1>1, AnySlice
<1>4. PICK u \in File : u = Put(loc.ppfblock, 0, x)
  BY <1>1, PutGrows
<1>5. PICK w \in File : w = Put(loc.binblock, 0, y)
  BY <1>1, PutGrows
<1>6. ReadBlocks(image) = [loc EXCEPT !.ppfblock = u, !.binblock = w]
  BY <1>1, <1>2, <1>3, <1>4, <1>5 DEF ReadBlocks, PpfLocals
<1>7. ReadBlocks(image) \in PpfLocals /\ ReadBlocks(image).spill = loc.spill
  BY <1>1, <1>6 DEF PpfLocals
<1>8. Valid(image) <=> u = w
  BY <1>1, <1>6 DEF Valid, PpfLocals
<1> QED  BY <1>2, <1>3, <1>4, <1>5, <1>7, <1>8 DEF PpfFresh

(* Every step keeps the types, and the stack's layout.                       *)
LEMMA PpfTypeStep == PpfType /\ PpfNext => PpfType' /\ loc'.spill = loc.spill
<1> SUFFICES ASSUME PpfType, PpfNext PROVE PpfType' /\ loc'.spill = loc.spill
  OBVIOUS
<1>1. /\ job \in Jobs("ppf") /\ out \in File /\ disk \in File /\ at \in Nat /\ ret \in Int /\ loc \in PpfLocals
      /\ job.patch \in File
  BY PpfGiven DEF PpfType
<1>2. job' = job
  BY DEF PpfNext, PPFVersion, ApplyPPF1Patch, ApplyPPF2Patch, Record12, ApplyPPF3Patch, Record3
<1>3. CASE PPFVersion
  BY <1>1, <1>2, <1>3 DEF PPFVersion, Abandon, Crash, PpfType
<1>4. CASE ApplyPPF1Patch
  <2>1. HeadLen \in Nat /\ 0 \in Nat
    BY <1>1, PpfGiven
  <2>2. Records(loc, HeadLen, 0) \in PpfLocals /\ Records(loc, HeadLen, 0).spill = loc.spill
    BY <1>1, <2>1, PpfRecordsType
  <2> QED  BY <1>1, <1>2, <1>4, <2>1, <2>2 DEF ApplyPPF1Patch, PpfType
<1>5. CASE ApplyPPF2Patch
  <2>1. 0 \in Byte /\ HeadLen + FlagLen + BlockLen \in Nat
    <3>1. HeadLen \in Nat /\ FlagLen \in Nat /\ BlockLen \in Nat
      BY <1>1, PpfGiven
    <3> QED  BY <3>1, BaseAssumption DEF Byte
  <2>2. IdPart(job.patch, 2) \in Nat
    BY <1>1, PpfId
  <2>3. PICK l : l = ReadBlocks(0)
    OBVIOUS
  <2>4. l \in PpfLocals /\ l.spill = loc.spill
    BY <2>1, <2>3, PpfBlocks
  <2>5. /\ Records(l, HeadLen + FlagLen + BlockLen, IdPart(job.patch, 2)) \in PpfLocals
        /\ Records(l, HeadLen + FlagLen + BlockLen, IdPart(job.patch, 2)).spill = l.spill
    BY <1>1, <2>1, <2>2, <2>4, PpfRecordsType
  <2>6. loc' \in {loc, l, Records(l, HeadLen + FlagLen + BlockLen, IdPart(job.patch, 2))}
    BY <1>5, <2>3 DEF ApplyPPF2Patch
  <2>7. at' \in {at, HeadLen + FlagLen + BlockLen}
    BY <1>5 DEF ApplyPPF2Patch
  <2>8. disk' = out /\ out' = out /\ ret' = ret
    BY <1>5 DEF ApplyPPF2Patch
  <2> QED  BY <1>1, <1>2, <2>1, <2>4, <2>5, <2>6, <2>7, <2>8 DEF PpfType
<1>6. CASE Record12
  <2>1. PICK pos, a, d : Ppf12Does(pos, a, d)
    BY <1>6, Ppf12Turn
  <2>2. pos \in PpfPos /\ a \in Byte /\ a \in Nat
    BY <2>1, BaseAssumption DEF Ppf12Does, PpfTurn, Byte
  <2>3. loc.count - (PosLen + 1) - a \in Int /\ at + PosLen + 1 + a \in Int
    <3>1. loc.count \in Nat /\ PosLen \in Nat
      BY <1>1, PpfGiven DEF PpfLocals
    <3> QED  BY <1>1, <2>2, <3>1
  <2>4. out' \in File /\ disk' \in File /\ loc'.mem \in PpfMem /\ loc'.count \in Nat
    BY <2>1, <2>3, PpfTurnType DEF Ppf12Does
  <2>5. at' \in Nat
    BY <1>1, <2>1, <2>3, PpfGiven DEF Ppf12Does
  <2>6. PICK m, c : m = Put(loc.mem, 0, d) /\ c = Wrap(loc.count - (PosLen + 1) - a)
    OBVIOUS
  <2>7. loc' = [loc EXCEPT !.pos = pos, !.anz = a, !.mem = m, !.count = c]
    BY <2>1, <2>6 DEF Ppf12Does
  <2>8. m \in PpfMem /\ c \in Nat
    BY <1>1, <2>4, <2>7 DEF PpfLocals
  <2>9. loc' \in PpfLocals /\ loc'.spill = loc.spill
    BY <1>1, <2>2, <2>7, <2>8 DEF PpfLocals
  <2> QED  BY <1>1, <1>2, <2>1, <2>4, <2>5, <2>9 DEF PpfType, Ppf12Does
<1>7. CASE ApplyPPF3Patch
  <2>1. PICK image, check, flag : /\ image = PatchByte(job.patch, HeadLen) /\ check = PatchByte(job.patch, HeadLen + 1)
                                  /\ flag = PatchByte(job.patch, HeadLen + 2)
    OBVIOUS
  <2>2. HeadLen \in Nat /\ FlagLen \in Nat /\ BlockLen \in Nat
    BY <1>1, PpfGiven
  <2>3. image \in Byte /\ flag \in Byte
    <3>1. HeadLen + 2 \in Nat
      BY <2>2
    <3> QED  BY <1>1, <2>1, <2>2, <3>1, PatchByteIs
  <2>4. PICK l : l = IF check # 0 THEN ReadBlocks(image) ELSE loc
    OBVIOUS
  <2>5. l \in PpfLocals /\ l.spill = loc.spill
    BY <1>1, <2>3, <2>4, PpfBlocks
  <2>6. PICK first : first = HeadLen + FlagLen + IF check # 0 THEN BlockLen ELSE 0
    OBVIOUS
  <2>7. first \in Nat
    <3>1. PICK b \in Nat : b = IF check # 0 THEN BlockLen ELSE 0
      BY <2>2
    <3> QED  BY <2>2, <2>6, <3>1
  <2>8. PICK r : r = Records(l, first, IdPart(job.patch, 3))
    OBVIOUS
  <2>9. r \in PpfLocals /\ r.spill = l.spill
    BY <1>1, <2>5, <2>7, <2>8, PpfId, PpfRecordsType, ZenonT(40), SMTT(30)
  <2>12. \/ (loc' = l /\ at' = at /\ ret' = -3)
         \/ (loc' = [r EXCEPT !.undo = flag] /\ at' = first /\ ret' = ret)
    BY <1>7, <2>1, <2>4, <2>6, <2>8, Zenon DEF ApplyPPF3Patch
  <2>10. disk' \in {out, disk} /\ out' = out
    BY <1>7 DEF ApplyPPF3Patch
  <2>11. [r EXCEPT !.undo = flag] \in PpfLocals /\ [r EXCEPT !.undo = flag].spill = r.spill
    BY <2>3, <2>9 DEF PpfLocals
  <2>13. loc' \in PpfLocals /\ loc'.spill = loc.spill
    BY <2>5, <2>9, <2>11, <2>12
  <2>14. at' \in Nat /\ ret' \in Int
    BY <1>1, <2>7, <2>12
  <2> QED  BY <1>1, <1>2, <2>10, <2>13, <2>14 DEF PpfType
<1>8. CASE Record3
  <2>1. PICK pos, a, d : \E undo \in Byte, left \in Nat, more \in Nat : Ppf3Does(pos, a, d, undo, left, more)
    BY <1>8, Ppf3Turn
  <2>2. PICK undo \in Byte, left \in Nat, more \in Nat : Ppf3Does(pos, a, d, undo, left, more)
    BY <2>1
  <2>3. pos \in PpfPos /\ a \in Byte /\ a \in Nat
    BY <2>2, BaseAssumption DEF Ppf3Does, PpfTurn, Byte
  <2>4. left - (OffsetLen + 1) - a - more \in Int
    <3>1. OffsetLen \in Nat
      BY <1>1, PpfGiven
    <3> QED  BY <2>3, <3>1
  <2>5. out' \in File /\ disk' \in File /\ loc'.mem \in PpfMem /\ loc'.count \in Nat
    BY <2>2, <2>4, PpfTurnType DEF Ppf3Does
  <2>6. PICK m, c : m = Put(loc.mem, 0, d) /\ c = Wrap(left - (OffsetLen + 1) - a - more)
    OBVIOUS
  <2>7. loc' = [loc EXCEPT !.pos = pos, !.anz = a, !.mem = m, !.count = c, !.undo = undo]
    BY <2>2, <2>6 DEF Ppf3Does
  <2>8. m \in PpfMem /\ c \in Nat
    BY <1>1, <2>5, <2>7 DEF PpfLocals
  <2>9. loc' \in PpfLocals /\ loc'.spill = loc.spill
    BY <1>1, <2>3, <2>7, <2>8 DEF PpfLocals
  <2>10. at' \in Nat /\ ret' \in Int
    BY <1>1, <2>2 DEF Ppf3Does
  <2> QED  BY <1>1, <1>2, <2>5, <2>9, <2>10 DEF PpfType
<1> QED  BY <1>3, <1>4, <1>5, <1>6, <1>7, <1>8 DEF PpfNext

(* What a turn reads of an intact patch is a whole record.                   *)
LEMMA PpfTurnReads ==
    ASSUME PpfType, job.whole, NEW k \in 1 .. Len(job.recs), NEW pos, NEW a, NEW d, PpfReads(job.pos[k], PpfWidth, pos, a, d)
    PROVE  /\ a \in Nat /\ Len(d) = a /\ job.pos[k] \in Nat /\ job.pos[k] + PpfWidth < Len(job.patch)
           /\ job.pos[k + 1] = job.pos[k] + PpfWidth + 1 + a + IF Flag(job, 2) # 0 THEN a ELSE 0
           /\ job.pos[k + 1] \in 0 .. Len(job.patch) /\ job.pos[k] + PpfWidth + 1 + a <= Len(job.patch)
<1>1. PICK r, p : r = job.recs[k] /\ p = job.pos[k] + PpfWidth
  OBVIOUS
<1>2. job \in Jobs("ppf")
  BY DEF PpfType
<1>3. PpfHolds(k, r, p)
  BY <1>1, <1>2, PpfNextRecord
<1>4. /\ job.pos[k] \in Nat /\ p \in Nat /\ Len(r.data) \in Nat
      /\ job.pos[k + 1] \in Nat /\ job.pos[k + 1] <= job.pos[Len(job.recs) + 1]
  BY <1>1, <1>2, PpfNextRecord
<1>5. job.pos[Len(job.recs) + 1] \in 0 .. Len(job.patch) /\ Len(job.patch) \in Nat
  BY <1>2, PpfEnd, PpfGiven
<1>6. PICK l \in Nat, m \in Nat : l = Len(r.data) /\ m = Len(job.patch)
  BY <1>4, <1>5
<1>7. p + 1 + l <= m
  BY <1>3, <1>6 DEF PpfHolds
<1>8. p < m
  BY <1>4, <1>7
<1>9. a = job.patch[p + 1] /\ d = Slice(job.patch, p + 1, a)
  BY <1>1, <1>6, <1>8 DEF PpfReads
<1>10. a = l /\ Len(d) = l
  BY <1>3, <1>6, <1>9 DEF PpfHolds
<1>11. job.pos[k + 1] = p + 1 + a + IF Flag(job, 2) # 0 THEN a ELSE 0
  BY <1>3, <1>6, <1>10 DEF PpfHolds
<1>12. job.pos[k + 1] \in 0 .. Len(job.patch)
  BY <1>4, <1>5
<1> QED  BY <1>1, <1>4, <1>6, <1>7, <1>8, <1>10, <1>11, <1>12

(* The count with which a loop starts, and where it is at its first record.  *)
LEMMA PpfLoopStarts ==
    ASSUME PpfType, job.whole, NEW l \in PpfLocals, NEW first \in Nat, NEW id \in Nat, first = job.pos[1],
           job.pos[Len(job.recs) + 1] = Len(job.patch) - id, loc'.count = Records(l, first, id).count,
           job' = job, out' = job.rom, at' = first
    PROVE  \E k \in 1 .. Len(job.recs) : PpfReady(k)'
<1>1. job \in Jobs("ppf")
  BY DEF PpfType
<1>2. /\ Len(job.recs) \in Nat /\ Len(job.recs) > 0 /\ job.layers[1] = job.rom
      /\ job.pos[1] < job.pos[Len(job.recs) + 1] /\ job.pos[Len(job.recs) + 1] \in 0 .. Len(job.patch)
  BY <1>1, PpfEnd
<1>3. loc'.count = Wrap(Len(job.patch) - first - id)
  BY <1>1, PpfRecordsType
<1>4. Len(job.patch) - first - id \in 0 .. Len(job.patch) /\ Len(job.patch) - first - id = job.pos[Len(job.recs) + 1] - first
  <2>1. Len(job.patch) \in Nat
    BY <1>1, PpfGiven
  <2> QED  BY <1>2, <2>1, SMTT(30), ZenonT(30)
<1>5. loc'.count = job.pos[Len(job.recs) + 1] - job.pos[1]
  BY <1>1, <1>3, <1>4, PpfGiven
<1>6. PpfReady(1)'
  <2>1. 1 \in 1 .. Len(job'.recs) /\ at' = job'.pos[1] /\ out' = job'.layers[1] /\ loc'.count = job'.pos[Len(job'.recs) + 1] - job'.pos[1]
    BY <1>2, <1>5
  <2> QED  BY <2>1 DEF PpfReady
<1>7. 1 \in 1 .. Len(job.recs)
  BY <1>2
<1> QED  BY <1>6, <1>7

(* What is to be shown of a call for an intact patch that fits its ROM.      *)
PpfOwn ==
    /\ job.magic = "PPF1" /\ pc = "ApplyPPF2Patch" => out = job.want
    /\ job.magic = "PPF2" /\ pc = "ApplyPPF3Patch" => out = job.want
    /\ job.magic = "PPF3" /\ pc = "done" /\ ret # Crash => ret = 0 /\ out = job.want

(* The loops of PPF1 and PPF2.                                               *)
LEMMA Ppf12Place == ASSUME PpfType, PpfFor, PpfPlace, Record12 PROVE PpfPlace' /\ PpfOwn'
<1>1. job \in Jobs("ppf") /\ job.whole
  BY DEF PpfType, PpfFor
<1>2. job.magic \in PpfVersions
  BY <1>1, PpfGiven, Zenon DEF PpfMade
<1>3. PICK pos, a, d : Ppf12Does(pos, a, d)
  BY Ppf12Turn
<1>4. job' = job /\ pc \in {"Record1", "Record2"}
  BY <1>3 DEF Ppf12Does, Record12
<1>5. /\ pc' = "Record1" => pc = "Record1"
      /\ pc' \in {"Record1", "ApplyPPF2Patch"} \cup {"Record2", "ApplyPPF3Patch"}
      /\ pc = "Record2" => pc' \in {"Record2", "ApplyPPF3Patch"}
  BY <1>3, <1>4 DEF Ppf12Does
<1>6. ASSUME NEW k \in 1 .. Len(job.recs), PpfReady(k), job.magic # "PPF3"
      PROVE  /\ loc'.count # 0 => \E i \in 1 .. Len(job.recs) : PpfReady(i)'
             /\ loc'.count = 0 => out' = job.want
  <2>1. at = job.pos[k] /\ PpfWidth = PosLen
    BY <1>6 DEF PpfReady, PpfWidth
  <2>2. PpfReads(job.pos[k], PpfWidth, pos, a, d) /\ PpfTurn(pos, a, d, loc.count - (PosLen + 1) - a) /\ at' = Wrap(at + PosLen + 1 + a)
    BY <1>3, <2>1 DEF Ppf12Does
  <2>3. /\ a \in Nat /\ job.pos[k] \in Nat /\ job.pos[k + 1] = job.pos[k] + PpfWidth + 1 + a + IF Flag(job, 2) # 0 THEN a ELSE 0
        /\ job.pos[k + 1] \in 0 .. Len(job.patch)
    BY <1>1, <2>2, PpfTurnReads
  <2>4. Flag(job, 2) = 0 /\ PosLen \in Nat
    BY <1>1, <1>6, PpfGiven DEF Flag
  <2>5. job.pos[k + 1] = job.pos[k] + PosLen + 1 + a
    BY <2>1, <2>3, <2>4
  <2>6. at' = job.pos[k + 1]
    BY <1>1, <2>1, <2>2, <2>3, <2>5, PpfGiven
  <2>7. PICK e \in Nat : e = job.pos[Len(job.recs) + 1]
    BY <1>1, PpfEnd
  <2>8. loc.count = e - job.pos[k]
    BY <1>6, <2>7 DEF PpfReady
  <2>9. loc.count - (PosLen + 1) - a = e - job.pos[k + 1]
    <3>1. PICK x \in Nat, y \in Nat, b \in Nat, w \in Nat : x = job.pos[k] /\ y = job.pos[k + 1] /\ b = a /\ w = PosLen
      BY <2>3, <2>4
    <3>2. y = x + w + 1 + b
      BY <3>1, <2>5
    <3>3. loc.count = e - x
      BY <3>1, <2>8
    <3>4. (e - x) - (w + 1) - b = e - y
      BY <3>2
    <3> QED  BY <3>1, <3>3, <3>4
  <2>10. PpfTurn(pos, a, d, job.pos[Len(job.recs) + 1] - job.pos[k + 1])
    BY <2>2, <2>7, <2>9
  <2>11. loc'.count # 0 => PpfReady(k + 1)'
    BY <1>1, <1>4, <1>6, <2>2, <2>6, <2>10, PpfTurnLays
  <2>12. loc'.count = 0 => out' = job.want
    BY <1>1, <1>4, <1>6, <2>2, <2>6, <2>10, PpfTurnLays
  <2>13. ASSUME loc'.count # 0 PROVE k + 1 \in 1 .. Len(job.recs)
    <3>1. PpfReady(k + 1)'
      BY <2>11, <2>13
    <3> QED  BY <1>4, <3>1 DEF PpfReady
  <2> QED  BY <2>11, <2>12, <2>13
<1>7. CASE job.magic = "PPF1"
  <2>1. CASE pc = "Record2"
    BY <1>4, <1>5, <1>7, <2>1 DEF PpfPlace, PpfOwn
  <2>2. CASE pc = "Record1"
    <3>1. PICK k \in 1 .. Len(job.recs) : PpfReady(k)
      BY <1>7, <2>2 DEF PpfPlace
    <3>2. \/ loc'.count # 0 /\ pc' = pc /\ \E i \in 1 .. Len(job.recs) : PpfReady(i)'
          \/ loc'.count = 0 /\ pc' = "ApplyPPF2Patch" /\ out' = job.want
      BY <1>3, <1>6, <1>7, <2>2, <3>1 DEF Ppf12Does
    <3>3. job'.magic = "PPF1" /\ job'.recs = job.recs /\ job'.want = job.want
      BY <1>4, <1>7
    <3> QED  BY <2>2, <3>2, <3>3 DEF PpfPlace, PpfOwn
  <2> QED  BY <1>4, <2>1, <2>2
<1>8. CASE job.magic = "PPF2"
  <2>1. pc = "Record2"
    BY <1>4, <1>8 DEF PpfPlace
  <2>2. PICK k \in 1 .. Len(job.recs) : PpfReady(k)
    BY <1>8, <2>1 DEF PpfPlace
  <2>3. \/ loc'.count # 0 /\ pc' = pc /\ \E i \in 1 .. Len(job.recs) : PpfReady(i)'
        \/ loc'.count = 0 /\ pc' = "ApplyPPF3Patch" /\ out' = job.want
    BY <1>3, <1>6, <1>8, <2>1, <2>2 DEF Ppf12Does
  <2>4. job'.magic = "PPF2" /\ job'.recs = job.recs /\ job'.want = job.want
    BY <1>4, <1>8
  <2> QED  BY <2>1, <2>3, <2>4 DEF PpfPlace, PpfOwn
<1>9. CASE job.magic = "PPF3"
  BY <1>4, <1>9 DEF PpfPlace
<1> QED  BY <1>2, <1>7, <1>8, <1>9 DEF PpfVersions

(* The loop of PPF3.                                                         *)
LEMMA Ppf3Place == ASSUME PpfType, PpfFor, PpfPlace, Record3 PROVE PpfPlace' /\ PpfOwn'
<1>1. job \in Jobs("ppf") /\ job.whole /\ loc.spill = "dead"
  BY DEF PpfType, PpfFor
<1>2. PICK pos, a, d : \E undo \in Byte, left \in Nat, more \in Nat : Ppf3Does(pos, a, d, undo, left, more)
  BY Ppf3Turn
<1>3. PICK undo \in Byte, left \in Nat, more \in Nat : Ppf3Does(pos, a, d, undo, left, more)
  BY <1>2
<1>4. job' = job /\ pc = "Record3"
  BY <1>3 DEF Ppf3Does, Record3
<1>5. \/ loc'.count # 0 /\ pc' = "Record3"
      \/ loc'.count = 0 /\ pc' = "done" /\ ret' = 0
  BY <1>3, <1>4 DEF Ppf3Does
<1>6. CASE job.magic # "PPF3"
  <2>1. job'.magic # "PPF3" /\ job'.magic = job.magic /\ pc' \in {"Record3", "done"}
    BY <1>4, <1>5, <1>6
  <2> QED  BY <2>1 DEF PpfPlace, PpfOwn
<1>7. CASE job.magic = "PPF3"
  <2>1. loc.undo = Flag(job, 2)
    BY <1>4, <1>7 DEF PpfPlace
  <2>2. PICK k \in 1 .. Len(job.recs) : PpfReady(k)
    BY <1>4, <1>7 DEF PpfPlace
  <2>3. at = job.pos[k] /\ PpfWidth = OffsetLen /\ undo = Flag(job, 2) /\ left = loc.count /\ more = IF undo # 0 THEN a ELSE 0
    BY <1>1, <1>3, <1>7, <2>1, <2>2 DEF PpfReady, PpfWidth, Ppf3Does
  <2>4. PpfReads(job.pos[k], PpfWidth, pos, a, d) /\ PpfTurn(pos, a, d, loc.count - (OffsetLen + 1) - a - more)
    BY <1>3, <2>3 DEF Ppf3Does
  <2>5. /\ a \in Nat /\ Len(d) = a /\ job.pos[k] \in Nat /\ job.pos[k] + PpfWidth < Len(job.patch)
        /\ job.pos[k + 1] = job.pos[k] + PpfWidth + 1 + a + IF Flag(job, 2) # 0 THEN a ELSE 0
        /\ job.pos[k + 1] \in 0 .. Len(job.patch)
    BY <1>1, <2>4, PpfTurnReads
  <2>6. OffsetLen \in Nat /\ Len(job.patch) \in Nat
    BY <1>1, PpfGiven
  <2>7. job.pos[k + 1] = job.pos[k] + OffsetLen + 1 + a + more
    BY <2>3, <2>5
  <2>8. at' = job.pos[k + 1]
    <3>1. at + OffsetLen < Len(job.patch)
      BY <2>3, <2>5
    <3>2. at + OffsetLen + 1 + Len(d) + more = job.pos[k + 1]
      BY <2>3, <2>5, <2>7
    <3>3. at + OffsetLen + 1 + Len(d) + more <= Len(job.patch)
      BY <2>5, <2>6, <3>2
    <3> QED  BY <1>3, <3>1, <3>2, <3>3 DEF Ppf3Does
  <2>9. PICK e \in Nat : e = job.pos[Len(job.recs) + 1]
    BY <1>1, PpfEnd
  <2>10. loc.count = e - job.pos[k]
    BY <2>2, <2>9 DEF PpfReady
  <2>11. loc.count - (OffsetLen + 1) - a - more = e - job.pos[k + 1]
    <3>1. PICK x \in Nat, y \in Nat, b \in Nat, w \in Nat : x = job.pos[k] /\ y = job.pos[k + 1] /\ b = a /\ w = OffsetLen
      BY <2>5, <2>6
    <3>2. y = x + w + 1 + b + more
      BY <3>1, <2>7
    <3>3. loc.count = e - x
      BY <3>1, <2>10
    <3>4. (e - x) - (w + 1) - b - more = e - y
      BY <3>2
    <3> QED  BY <3>1, <3>3, <3>4
  <2>12. PpfTurn(pos, a, d, job.pos[Len(job.recs) + 1] - job.pos[k + 1])
    BY <2>4, <2>9, <2>11
  <2>13. loc'.count # 0 => PpfReady(k + 1)'
    BY <1>1, <1>4, <2>2, <2>4, <2>8, <2>12, PpfTurnLays
  <2>14. loc'.count = 0 => out' = job.want
    BY <1>1, <1>4, <2>2, <2>4, <2>8, <2>12, PpfTurnLays
  <2>15. ASSUME loc'.count # 0 PROVE \E i \in 1 .. Len(job.recs) : PpfReady(i)'
    <3>1. PpfReady(k + 1)'
      BY <2>13, <2>15
    <3>2. k + 1 \in 1 .. Len(job.recs)
      BY <1>4, <3>1 DEF PpfReady
    <3> QED  BY <3>1, <3>2
  <2>16. loc'.undo = Flag(job', 2)
    <3>1. PICK m, c : m = Put(loc.mem, 0, d) /\ c = Wrap(left - (OffsetLen + 1) - a - more)
      OBVIOUS
    <3>2. loc' = [loc EXCEPT !.pos = pos, !.anz = a, !.mem = m, !.count = c, !.undo = undo]
      BY <1>3, <3>1 DEF Ppf3Does
    <3>3. loc'.undo = undo
      BY <3>2 DEF PpfType, PpfLocals
    <3> QED  BY <1>4, <2>3, <3>3
  <2>17. job'.magic = "PPF3" /\ job'.recs = job.recs /\ job'.want = job.want
    BY <1>4, <1>7
  <2> QED  BY <1>5, <2>14, <2>15, <2>16, <2>17 DEF PpfPlace, PpfOwn
<1> QED  BY <1>6, <1>7

(* The steps before the loops.                                               *)
LEMMA PpfHeads == ASSUME PpfType, PpfFor, PpfPlace, PPFVersion \/ ApplyPPF1Patch \/ ApplyPPF2Patch \/ ApplyPPF3Patch
                  PROVE  PpfPlace' /\ PpfOwn'
<1>1. job \in Jobs("ppf") /\ job.whole /\ job.fits /\ job.patch \in File /\ loc \in PpfLocals
  BY PpfGiven DEF PpfType, PpfFor
<1>2. job.magic \in PpfVersions /\ PpfFits(job)
  BY <1>1, PpfGiven, Zenon DEF PpfMade
<1>3. HeadLen \in Nat /\ FlagLen \in Nat /\ BlockLen \in Nat /\ Len(job.patch) \in Nat
  BY <1>1, PpfGiven
<1>4. CASE PPFVersion
  <2>1. UNCHANGED <<job, out, at, loc>> /\ PpfFresh
    BY <1>4 DEF PPFVersion, PpfPlace
  <2>2. PpfFresh'
    BY <2>1 DEF PpfFresh
  <2>3. \/ pc' = "done" /\ ret' = Crash
        \/ job.magic = "PPF1" /\ pc' = "ApplyPPF1Patch"
        \/ job.magic = "PPF2" /\ pc' = "ApplyPPF2Patch"
        \/ job.magic = "PPF3" /\ pc' = "ApplyPPF3Patch"
    BY <1>2, <1>4 DEF PPFVersion, Abandon
  <2> QED  BY <2>1, <2>2, <2>3 DEF PpfPlace, PpfOwn
<1>5. CASE ApplyPPF1Patch
  <2>1. pc = "ApplyPPF1Patch" /\ pc' = "Record1" /\ at' = HeadLen /\ loc' = Records(loc, HeadLen, 0) /\ UNCHANGED <<job, out>>
    BY <1>5 DEF ApplyPPF1Patch
  <2>2. job.magic = "PPF1" /\ out = job.rom
    BY <1>2, <2>1 DEF PpfVersions, PpfPlace, PpfFresh
  <2>3. loc'.count = Records(loc, HeadLen, 0).count /\ loc'.spill = loc.spill
    BY <1>1, <1>3, <2>1, PpfRecordsType, ZenonT(40), SMTT(30)
  <2>4. job.pos[1] = HeadLen /\ job.pos[Len(job.recs) + 1] = Len(job.patch) - 0
    BY <1>1, <1>3, <2>2, PpfEnd
  <2>5. \E k \in 1 .. Len(job.recs) : PpfReady(k)'
    BY <1>1, <1>3, <2>1, <2>2, <2>3, <2>4, PpfLoopStarts
  <2>6. job'.magic = "PPF1" /\ job'.recs = job.recs
    BY <2>1, <2>2
  <2> QED  BY <2>1, <2>3, <2>5, <2>6 DEF PpfPlace, PpfOwn
<1>6. CASE ApplyPPF2Patch
  <2>1. PICK first \in Nat, id \in Nat : first = HeadLen + FlagLen + BlockLen /\ id = IdPart(job.patch, 2)
    <3>1. HeadLen + FlagLen + BlockLen \in Nat
      BY <1>3
    <3>2. IdPart(job.patch, 2) \in Nat
      BY <1>1, PpfId
    <3> QED  BY <3>1, <3>2
  <2>2. PICK l : l = ReadBlocks(0)
    OBVIOUS
  <2>3. 0 \in Byte
    BY BaseAssumption DEF Byte
  <2>4. l \in PpfLocals /\ l.spill = loc.spill
    BY <2>2, <2>3, PpfBlocks
  <2>5. Records(l, first, id).spill = loc.spill
    BY <1>1, <2>1, <2>4, PpfRecordsType
  <2>6. PICK obinlen \in Into(<<>>, Slice(job.patch, HeadLen, FlagLen), FlagLen) :
         \/ LE(obinlen) # Len(out) /\ pc' = "ApplyPPF3Patch" /\ loc' = loc
         \/ LE(obinlen) = Len(out) /\ ~Valid(0) /\ pc' = "ApplyPPF3Patch" /\ loc' = l
         \/ LE(obinlen) = Len(out) /\ Valid(0) /\ pc' = "Record2" /\ loc' = Records(l, first, id) /\ at' = first
    BY <1>6, <2>1, <2>2, Zenon DEF ApplyPPF2Patch
  <2>7. pc = "ApplyPPF2Patch" /\ pc' \in {"ApplyPPF3Patch", "Record2"} /\ UNCHANGED <<job, out>>
    BY <1>6 DEF ApplyPPF2Patch
  <2>8. loc'.spill = loc.spill
    BY <2>4, <2>5, <2>6
  <2>9. CASE job.magic = "PPF1"
    <3>1. job'.magic = "PPF1"
      BY <2>7, <2>9
    <3> QED  BY <2>7, <2>8, <3>1 DEF PpfPlace, PpfOwn
  <2>10. CASE job.magic = "PPF2"
    <3>1. PpfFresh
      BY <2>7, <2>10 DEF PpfPlace
    <3>2. job.pos[1] = first /\ job.pos[Len(job.recs) + 1] = Len(job.patch) - id
          /\ job.pos[1] < job.pos[Len(job.recs) + 1] /\ job.pos[Len(job.recs) + 1] \in 0 .. Len(job.patch)
      BY <1>1, <2>1, <2>10, PpfEnd
    <3>3. HeadLen + FlagLen <= Len(job.patch)
      BY <1>3, <2>1, <3>2
    <3>4. obinlen = Slice(job.patch, HeadLen, FlagLen)
      BY <1>1, <1>3, <3>3, IntoFull
    <3>5. LE(obinlen) = Len(out)
      BY <1>2, <2>10, <3>1, <3>4 DEF PpfFits, PpfFresh
    <3>6. Slice(job.patch, HeadLen + FlagLen, BlockLen) = Slice(job.rom, BlockAt(Flag(job, 0)), BlockLen)
      BY <1>2, <2>10, Zenon DEF PpfFits, Checked
    <3>7. Flag(job, 0) = 0
      BY <2>10 DEF Flag
    <3>8. Valid(0)
      BY <2>3, <3>1, <3>6, <3>7, PpfBlocks
    <3>9. pc' = "Record2" /\ loc' = Records(l, first, id) /\ at' = first
      BY <2>6, <3>5, <3>8
    <3>10. \E k \in 1 .. Len(job.recs) : PpfReady(k)'
      <4>1. loc'.count = Records(l, first, id).count /\ job' = job /\ out' = job.rom
        BY <2>7, <3>1, <3>9 DEF PpfFresh
      <4> QED  BY <1>1, <2>4, <3>2, <3>9, <4>1, PpfLoopStarts
    <3>11. job'.magic = "PPF2" /\ job'.recs = job.recs
      BY <2>7, <2>10
    <3> QED  BY <2>8, <3>9, <3>10, <3>11 DEF PpfPlace, PpfOwn
  <2>11. CASE job.magic = "PPF3"
    BY <2>7, <2>11 DEF PpfPlace
  <2> QED  BY <1>2, <2>9, <2>10, <2>11 DEF PpfVersions
<1>7. CASE ApplyPPF3Patch
  <2>1. PICK image, check, flag : /\ image = PatchByte(job.patch, HeadLen) /\ check = PatchByte(job.patch, HeadLen + 1)
                                  /\ flag = PatchByte(job.patch, HeadLen + 2)
    OBVIOUS
  <2>2. image \in Byte /\ flag \in Byte
    <3>1. HeadLen + 2 \in Nat
      BY <1>3
    <3> QED  BY <1>1, <1>3, <2>1, <3>1, PatchByteIs
  <2>3. PICK l : l = IF check # 0 THEN ReadBlocks(image) ELSE loc
    OBVIOUS
  <2>4. l \in PpfLocals /\ l.spill = loc.spill
    BY <1>1, <2>2, <2>3, PpfBlocks
  <2>5. PICK first : first = HeadLen + FlagLen + IF check # 0 THEN BlockLen ELSE 0
    OBVIOUS
  <2>6. first \in Nat
    <3>1. PICK b \in Nat : b = IF check # 0 THEN BlockLen ELSE 0
      BY <1>3
    <3> QED  BY <1>3, <2>5, <3>1
  <2>7. PICK id \in Nat : id = IdPart(job.patch, 3)
    BY <1>1, PpfId
  <2>8. PICK r : r = Records(l, first, id)
    OBVIOUS
  <2>9. r \in PpfLocals /\ r.spill = loc.spill
    BY <1>1, <2>4, <2>6, <2>8, PpfRecordsType
  <2>10. \/ (check # 0 /\ ~Valid(image) /\ ~job.ignore /\ pc' = "done" /\ loc' = l)
         \/ (loc' = [r EXCEPT !.undo = flag] /\ at' = first /\ pc' = "Record3")
    BY <1>7, <2>1, <2>3, <2>5, <2>7, <2>8, Zenon DEF ApplyPPF3Patch
  <2>11. pc = "ApplyPPF3Patch" /\ UNCHANGED <<job, out>> /\ pc' \in {"done", "Record3"}
    BY <1>7 DEF ApplyPPF3Patch
  <2>12. [r EXCEPT !.undo = flag].spill = r.spill /\ [r EXCEPT !.undo = flag].count = r.count /\ [r EXCEPT !.undo = flag].undo = flag
    BY <2>9 DEF PpfLocals
  <2>13. loc'.spill = loc.spill
    BY <2>4, <2>9, <2>10, <2>12
  <2>14. CASE job.magic # "PPF3"
    <3>1. job'.magic # "PPF3" /\ job'.magic = job.magic
      BY <2>11, <2>14
    <3> QED  BY <2>11, <2>13, <3>1 DEF PpfPlace, PpfOwn
  <2>15. CASE job.magic = "PPF3"
    <3>1. PpfFresh
      BY <2>11, <2>15 DEF PpfPlace
    <3>2. image = Flag(job, 0) /\ check = Flag(job, 1) /\ flag = Flag(job, 2)
      <4>1. HeadLen + 0 = HeadLen
        BY <1>3
      <4> QED  BY <2>1, <2>15, <4>1 DEF Flag
    <3>3. ASSUME check # 0, ~job.ignore PROVE Valid(image)
      <4>1. Slice(job.patch, HeadLen + FlagLen, BlockLen) = Slice(job.rom, BlockAt(image), BlockLen)
        BY <1>2, <3>2, <3>3, Zenon DEF PpfFits, Checked
      <4> QED  BY <2>2, <3>1, <4>1, PpfBlocks
    <3>4. loc' = [r EXCEPT !.undo = flag] /\ at' = first /\ pc' = "Record3"
      BY <2>10, <3>3
    <3>5. job.pos[1] = first /\ job.pos[Len(job.recs) + 1] = Len(job.patch) - id
      BY <1>1, <2>5, <2>7, <2>15, <3>2, PpfEnd
    <3>6. loc'.count = Records(l, first, id).count /\ loc'.undo = flag
      BY <2>8, <2>12, <3>4
    <3>7. out' = job.rom /\ job' = job
      BY <2>11, <3>1 DEF PpfFresh
    <3>8. \E k \in 1 .. Len(job.recs) : PpfReady(k)'
      BY <1>1, <2>4, <2>6, <3>4, <3>5, <3>6, <3>7, PpfLoopStarts
    <3>9. job'.magic = "PPF3" /\ job'.recs = job.recs /\ loc'.undo = Flag(job', 2)
      BY <2>15, <3>2, <3>6, <3>7
    <3> QED  BY <2>13, <3>4, <3>8, <3>9 DEF PpfPlace, PpfOwn
  <2> QED  BY <2>14, <2>15
<1> QED  BY <1>4, <1>5, <1>6, <1>7

(* The invariant of a PPF call is inductive.                                 *)
LEMMA PpfStep == PpfIInv /\ [PpfNext \/ Done]_vars => PpfIInv'
<1>1. ASSUME PpfIInv, PpfNext PROVE PpfIInv'
  <2>1. PpfType /\ PpfType' /\ job' = job /\ job \in Jobs("ppf") /\ loc'.spill = loc.spill
    <3>1. job' = job
      BY <1>1 DEF PpfNext, PPFVersion, ApplyPPF1Patch, ApplyPPF2Patch, Record12, ApplyPPF3Patch, Record3
    <3> QED  BY <1>1, <3>1, PpfTypeStep DEF PpfIInv, PpfType
  <2>2. ASSUME PpfFor PROVE PpfPlace' /\ PpfOwn'
    <3>1. PpfPlace
      BY <1>1, <2>2 DEF PpfIInv
    <3> QED  BY <1>1, <2>1, <2>2, <3>1, PpfHeads, Ppf12Place, Ppf3Place DEF PpfNext
  <2>4. PpfFor' => PpfFor
    BY <2>1 DEF PpfFor
  <2>5. PpfFor' => PpfPlace' /\ PpfOwn'
    BY <2>2, <2>4
  <2>6. PpfOwnPass'
    BY <2>5 DEF PpfOwnPass, PpfOwn, PpfFor
  <2> QED  BY <2>1, <2>5, <2>6 DEF PpfIInv
<1>2. ASSUME PpfIInv, Done \/ UNCHANGED vars PROVE PpfIInv'
  BY <1>2 DEF Done, vars, PpfIInv, PpfType, PpfFor, PpfPlace, PpfFresh, PpfReady, PpfOwnPass, Flag
<1> QED  BY <1>1, <1>2

(* A PPF call starts in its invariant.                                       *)
LEMMA PpfStarts == PpfInit => PpfIInv
<1> SUFFICES ASSUME PpfInit PROVE PpfIInv
  OBVIOUS
<1>1. PICK b \in OldBlocks, s \in Spills :
        loc = [count |-> 0, pos |-> <<>>, anz |-> 0, mem |-> Fill(Base - 1, 0), binblock |-> b, ppfblock |-> b, undo |-> 0, spill |-> s]
  BY DEF PpfInit
<1>2. job \in Jobs("ppf") /\ out = job.rom /\ disk = job.rom /\ at = 0 /\ pc = "PPFVersion" /\ ret = 1
  BY DEF PpfInit
<1>3. b \in File /\ 0 \in Byte /\ Base - 1 \in Nat
  <2>1. b \in [1 .. BlockLen -> Byte] /\ BlockLen \in Nat
    BY PpfAssumption
  <2> QED  BY <2>1, BaseAssumption, SMTT(30), ZenonT(30) DEF File, Byte
<1>4. Fill(Base - 1, 0) \in PpfMem
  BY <1>3, FillFile DEF PpfMem
<1>5. PICK m \in PpfMem : m = Fill(Base - 1, 0)
  BY <1>4
<1>6. loc \in PpfLocals /\ loc.ppfblock = loc.binblock
  BY <1>1, <1>3, <1>5 DEF PpfLocals
<1>7. PpfType
  BY <1>2, <1>6, PpfGiven DEF PpfType
<1>8. PpfPlace
  BY <1>2, <1>6 DEF PpfPlace, PpfFresh
<1>9. PpfOwnPass
  BY <1>2 DEF PpfOwnPass
<1> QED  BY <1>7, <1>8, <1>9 DEF PpfIInv
=============================================================================
