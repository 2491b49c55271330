-------------------------------- MODULE Ips --------------------------------
(* ips.c of ipspatcher and of ips32patcher, which differ in the width of an  *)
(* offset and in the mark that ends a patch.  The patch is the stream behind *)
(* its five-byte header; the ROM is changed in place.                        *)
EXTENDS PatchIO

CONSTANTS OffLen(_),      \* 3 for IPS, 4 for IPS32
          SizeLen,        \* 2
          Mark(_)         \* "EOF", "EEOF"

IpsFormats == {"ips", "ips32"}
\* The stream of a patch as it was made, all, of which the file may hold only
\* the start: the records (none at the offset that reads as the mark) and the
\* mark.  full: how many records the file holds to their last byte.
IpsRecords == [offset : Nat, data : File, rle : BOOLEAN]
IpsMade(j) ==
    LET n == Len(j.recs)
        w == OffLen(j.fmt)
        size(k) == BE(Slice(j.all, k, SizeLen))
    IN /\ j.recs \in Seq(IpsRecords) /\ Laid(j, j.rom) /\ j.all \in File
       /\ Len(j.patch) <= Len(j.all) /\ (j.whole <=> Len(j.patch) = Len(j.all))
       /\ \A i \in 1 .. Len(j.patch) : j.patch[i] = j.all[i]
       /\ j.full \in 0 .. n /\ \A k \in 1 .. n : k <= j.full <=> j.pos[k + 1] <= Len(j.patch)
       /\ j.pos[1] = 0 /\ Len(j.all) = j.pos[n + 1] + w /\ Slice(j.all, j.pos[n + 1], w) = Mark(j.fmt)
       /\ \A k \in 1 .. n : LET r == j.recs[k]
                                p == j.pos[k] + w + SizeLen
            IN /\ j.pos[k + 1] <= Len(j.all) /\ Slice(j.all, j.pos[k], w) # Mark(j.fmt)
               /\ BE(Slice(j.all, j.pos[k], w)) = r.offset
               /\ \/ /\ ~r.rle /\ size(p - SizeLen) = Len(r.data) /\ r.data # <<>>
                     /\ j.pos[k + 1] = p + Len(r.data)
                     /\ \A i \in 1 .. Len(r.data) : r.data[i] = j.all[p + i]
                  \/ /\ r.rle /\ size(p - SizeLen) = 0 /\ size(p) = Len(r.data)
                     /\ j.pos[k + 1] = p + SizeLen + 1
                     /\ \A i \in 1 .. Len(r.data) : r.data[i] = j.all[p + SizeLen + 1]
ASSUME IpsAssumption == \A f \in IpsFormats : /\ OffLen(f) \in 1 .. 4 /\ SizeLen \in 1 .. 4
                                              /\ Mark(f) \in [1 .. OffLen(f) -> Byte]
                                              /\ \A j \in Jobs(f) : j.made => IpsMade(j)

IpsInit == /\ \E f \in IpsFormats : job \in Jobs(f)
           /\ out = job.rom /\ disk = job.rom /\ at = 0
           /\ loc = [offset |-> 0, size |-> 0, rle |-> FALSE, rleData |-> 0, n |-> 0]
           /\ pc = "IPSOpen" /\ ret = 1

\* A file does not open, the header is another one, or the ROM is empty.
IPSOpen == /\ pc = "IPSOpen"
           /\ \/ Close(-3)
              \/ job.magic = job.fmt /\ job.rom # <<>> /\ pc' = "IPSReadRecord" /\ UNCHANGED <<ret, disk>>
           /\ UNCHANGED <<job, out, at, loc>>

IpsEndedAtEof(o) == o \in {Mark(job.fmt), <<>>}                 \* mutant: the end of the file ends a patch too
IpsEnded(o) == o = Mark(job.fmt)

IPSReadRecord ==
    LET o == Slice(job.patch, at, OffLen(job.fmt))
        s == Slice(job.patch, at + OffLen(job.fmt), SizeLen)
        head == at + OffLen(job.fmt) + SizeLen
        r == Slice(job.patch, head, SizeLen)
        d == Slice(job.patch, head + SizeLen, 1)
        ended == IpsEnded(o)
        short == Len(o) < OffLen(job.fmt) \/ Len(s) < SizeLen \/ (BE(s) = 0 /\ (Len(r) < SizeLen \/ d = <<>>))
    IN /\ pc = "IPSReadRecord"
       /\ \/ ended /\ Close(0) /\ UNCHANGED <<at, loc>>
          \/ ~ended /\ short /\ Close(-5) /\ UNCHANGED <<at, loc>>
          \/ /\ ~ended /\ ~short /\ BE(s) # 0
             /\ loc' = [loc EXCEPT !.offset = BE(o), !.size = BE(s), !.rle = FALSE]
             /\ at' = head /\ pc' = "IPSProcessRecord" /\ UNCHANGED <<ret, disk>>
          \/ /\ ~ended /\ ~short /\ BE(s) = 0
             /\ loc' = [loc EXCEPT !.offset = BE(o), !.size = BE(r), !.rle = TRUE, !.rleData = d[1]]
             /\ at' = head + SizeLen + 1 /\ pc' = "IPSProcessRecord" /\ UNCHANGED <<ret, disk>>
       /\ UNCHANGED <<job, out>>

\* The bytes of a record: where the patch ends early the byte read last is
\* written again, an uninitialised one if there was none.
IpsDataShort(got, junk) == [k \in 1 .. (loc.size - 1) |-> IF k <= Len(got) THEN got[k] ELSE junk]       \* mutant
IpsData(got, junk) == [k \in 1 .. loc.size |-> IF k <= Len(got) THEN got[k]
                                               ELSE IF got # <<>> THEN got[Len(got)] ELSE junk]

IPSProcessRecord ==
    LET got == Slice(job.patch, at, loc.size) IN
    /\ pc = "IPSProcessRecord" /\ pc' = "IPSReadRecord"
    /\ \/ loc.rle /\ out' = Put(out, loc.offset, Fill(loc.size, loc.rleData)) /\ at' = at
       \/ ~loc.rle /\ (\E junk \in Byte : out' = Put(out, loc.offset, IpsData(got, junk))) /\ at' = at + Len(got)
    /\ loc' = [loc EXCEPT !.n = @ + 1] /\ UNCHANGED <<job, disk, ret>>

IpsNext == IPSOpen \/ IPSReadRecord \/ IPSProcessRecord

-----------------------------------------------------------------------------
(* An intact patch that opens is applied to the last record and reported as  *)
(* applied.  (No record may start at the offset that reads as the mark.)     *)
IpsExact ==
    job.fmt \in IpsFormats /\ job.made /\ job.whole /\ pc = "done" /\ ret # -3 => ret = 0 /\ disk = job.want

(* A patch that was cut anywhere, be it behind its last record, is never     *)
(* reported as applied, although the bytes of a cut record are made up.      *)
IpsCutFails == job.fmt \in IpsFormats /\ job.made /\ ~job.whole /\ pc = "done" => ret # 0
=============================================================================
