------------------------------ MODULE Formats ------------------------------
(* A call of the patcher of any format, as patch() of MainActivity makes one *)
(* by the extension and the signature of the patch file.                     *)
EXTENDS Ips, Ppf, Dps, ApsGba, ApsN64, Bps, Bsdiff, Xpc, Ups, Ecm, Dldi

Init == \/ IpsInit \/ PpfInit \/ DpsInit \/ ApsGbaInit \/ N64Init
        \/ BpsInit \/ BsInit \/ XpcInit \/ UpsInit \/ EcmInit \/ DldiInit
Step == \/ job.fmt \in IpsFormats /\ IpsNext
        \/ job.fmt = "ppf" /\ PpfNext
        \/ job.fmt = "dps" /\ DpsNext
        \/ job.fmt = "apsgba" /\ ApsGbaNext
        \/ job.fmt = "apsn64" /\ N64Next
        \/ job.fmt = "bps" /\ BpsNext
        \/ job.fmt = "bsdiff" /\ BsNext
        \/ job.fmt = "xpc" /\ XpcNext
        \/ job.fmt = "ups" /\ UpsNext
        \/ job.fmt = "ecm" /\ EcmNext
        \/ job.fmt = "dldi" /\ DldiNext
Next == Step \/ Done
Spec == Init /\ [][Next]_vars /\ WF_vars(Step)

-----------------------------------------------------------------------------
\* Files hold bytes, and the position in the patch and the result are numbers.
TypeOK == IsJob(job) /\ out \in File /\ disk \in File /\ at \in Nat /\ ret \in Int

(* The formats made of records as RecordPatch describes them, for patches    *)
(* (N64: intact ones) whose records are known.                               *)
Listed == \/ job.fmt \in IpsFormats \cup {"xpc"} /\ job.made
          \/ job.fmt = "apsn64" /\ job.whole
Resized == [i \in 1 .. job.size |-> IF i <= Len(job.rom) THEN job.rom[i] ELSE 0]
RecordFile == IF job.fmt = "apsn64" /\ at = 0 THEN Resized                \* not resized yet
              ELSE IF job.fmt = "xpc" /\ Len(out) < Len(job.rom) THEN job.rom      \* not copied yet
              ELSE out
OffsetOf(r) == IF job.fmt = "xpc" THEN r.page * PageLen + r.address ELSE r.offset
R == INSTANCE RecordPatch WITH
       file <- IF Listed THEN RecordFile ELSE <<>>,
       todo <- IF Listed THEN [k \in 1 .. (Len(job.recs) - loc.n) |->
                                 [offset |-> OffsetOf(job.recs[loc.n + k]), data |-> job.recs[loc.n + k].data]]
               ELSE <<>>,
       spoiled <- /\ Listed
                  /\ \/ job.fmt \in IpsFormats /\ loc.n > job.full
                     \/ job.fmt = "xpc" /\ loc.n > at,
       result <- IF pc # "done" \/ ~Listed THEN "running" ELSE IF ret = 0 THEN "patched" ELSE "failed"

(* IPS, IPS32, APS (N64) and XPC lay the records of the patch over the ROM   *)
(* in order; success means all of them; a failure leaves a prefix, with at   *)
(* most its last record damaged and never a byte outside the records.        *)
LaidOver == R!RSpec

(* Every call returns, whatever the patch holds; a PPF call if the patch is  *)
(* an intact PPF3 patch for this ROM.                                        *)
Counted == job.fmt = "ppf" => job.magic = "PPF3" /\ job.whole /\ job.fits /\ loc.spill = "dead"
Returns == (Counted ~> pc = "done")
=============================================================================
