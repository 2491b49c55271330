------------------------------ MODULE MCFormats ------------------------------
(* Calls of every patcher with bytes of two bits and fields of one or two    *)
(* bytes: patches made by encoding lists of records or pairs of files, the   *)
(* same patches cut at every byte, damaged ones, and ROMs they do not fit.   *)
EXTENDS Formats, SequencesExt

MCXor(a, b) == LET bit(x, k) == (x \div k) % 2 IN
               ((bit(a, 1) + bit(b, 1)) % 2) + 2 * ((bit(a, 2) + bit(b, 2)) % 2)

Little(n, w) == [i \in 1 .. w |-> (n \div Base ^ (i - 1)) % Base]
Big(n, w) == Reverse(Little(n, w))
Overlay(rom, recs) == FoldLeft(LAMBDA f, r : Put(f, r.offset, r.data), rom, recs)
Encoded(recs, Enc(_)) == FoldLeft(LAMBDA s, r : s \o Enc(r), <<>>, recs)
\* Where each record starts, and what it is laid over.
Starts(recs, Enc(_), from) == [k \in 1 .. (Len(recs) + 1) |-> from + Len(Encoded(SubSeq(recs, 1, k - 1), Enc))]
Layers(rom, recs) == [k \in 1 .. (Len(recs) + 1) |-> Overlay(rom, SubSeq(recs, 1, k - 1))]
Lists(S, n) == UNION {[1 .. k -> S] : k \in 0 .. n}
Data == {<<1>>, <<2, 1>>}

-----------------------------------------------------------------------------
\* IPS and IPS32: one or two bytes of offset; the mark is offset 3, or 5.
MCOffLen(f) == IF f = "ips" THEN 1 ELSE 2
MCMark(f) == IF f = "ips" THEN <<3>> ELSE <<1, 1>>
IpsRec(f, r) == Big(r.offset, MCOffLen(f)) \o
                (IF r.rle THEN <<0, Len(r.data), r.data[1]>> ELSE <<Len(r.data)>> \o r.data)
IpsRecs(f) == [offset : IF f = "ips" THEN {0, 2, 3} ELSE {1, 4, 5}, data : Data, rle : {FALSE}]
              \cup [offset : {1}, data : {<<2, 2>>}, rle : {TRUE}]
IpsJob(f, recs, cut, rom, magic) ==
    LET enc(r) == IpsRec(f, r)
        all == Encoded(recs, enc) \o MCMark(f)
        kept == SubSeq(all, 1, Len(all) - cut)
    IN [fmt |-> f, magic |-> magic, rom |-> rom, patch |-> kept, all |-> all, ignore |-> FALSE, recs |-> recs,
        pos |-> Starts(recs, enc, 0), layers |-> Layers(rom, recs), want |-> Overlay(rom, recs), whole |-> Len(kept) = Len(all),
        made |-> \A k \in DOMAIN recs : Big(recs[k].offset, MCOffLen(f)) # MCMark(f),
        full |-> Cardinality({k \in DOMAIN recs : Len(Encoded(SubSeq(recs, 1, k), enc)) <= Len(kept)})]
IpsJobs(f) == {IpsJob(f, recs, cut, <<0, 1, 3>>, f) : recs \in Lists(IpsRecs(f), 2), cut \in 0 .. 8}
              \cup {IpsJob(f, <<>>, 0, rom, magic) : rom \in {<<>>, <<0, 1, 3>>}, magic \in {f, "none"}}

-----------------------------------------------------------------------------
\* PPF: a header of one byte, three flags, a block of one byte.
MCBlockAt(b) == IF b = 0 THEN 1 ELSE 0
MCIdMagic == <<3>>
MCOldBlocks == {<<0>>, <<2>>}
MCLenIdx(v) == IF v = 2 THEN 2 ELSE 1
PpfRecs == [offset : {0, 2}, data : Data]
PpfEnc(v, undo, r) == Little(r.offset, IF v = 3 THEN OffsetLen ELSE PosLen) \o <<Len(r.data)>> \o r.data \o IF undo = 0 THEN <<>> ELSE r.data
PpfId(v, n) == IF n = 0 THEN <<>> ELSE Fill(n, 1) \o IdMagic \o Little(n, MCLenIdx(v))
PpfJob(v, rom, head, recs, undo, id, cut, fits, ignore) ==
    LET enc(r) == PpfEnc(v, undo, r)
        all == <<0>> \o head \o Encoded(recs, enc) \o id
    IN [fmt |-> "ppf", magic |-> <<"PPF1", "PPF2", "PPF3", "none">>[v], rom |-> rom, patch |-> SubSeq(all, 1, Len(all) - cut),
        ignore |-> ignore, want |-> Overlay(rom, recs), whole |-> cut = 0 /\ recs # <<>>, fits |-> fits,
        recs |-> recs, pos |-> Starts(recs, enc, 1 + Len(head)), layers |-> Layers(rom, recs)]
PpfRoms == {<<0, 1, 0>>, <<1>>}
PpfLists == Lists(PpfRecs, 2) \ {<<>>}
Ppf1Jobs == {PpfJob(1, rom, <<>>, recs, 0, <<>>, 0, TRUE, FALSE) : rom \in PpfRoms, recs \in PpfLists}
Ppf2Jobs == {PpfJob(2, rom, Little(3, 3) \o <<1>>, recs, 0, PpfId(2, id), 0, rom = <<0, 1, 0>>, FALSE) :
               rom \in PpfRoms, recs \in PpfLists, id \in {0, 1}}
Ppf3Jobs == UNION {{PpfJob(3, rom, flags \o (IF flags[2] = 0 THEN <<>> ELSE <<1>>), recs, flags[3], PpfId(3, id), cut,
                           flags[2] = 0 \/ (rom = <<0, 1, 0>> /\ flags[1] = 0) \/ ignore, ignore) :
                      id \in {0, 1}, cut \in {0, 2}} :
                     rom \in PpfRoms, recs \in PpfLists, flags \in {<<0, 0, 0>>, <<0, 1, 0>>, <<1, 1, 0>>, <<0, 0, 1>>},
                     ignore \in BOOLEAN}
PpfOther == {PpfJob(v, <<0, 1, 0>>, <<>>, <<>>, 0, <<>>, 0, FALSE, FALSE) : v \in 1 .. 4}
PpfJobs == Ppf1Jobs \cup Ppf2Jobs \cup Ppf3Jobs \cup PpfOther

-----------------------------------------------------------------------------
\* DPS: records that lay patch or ROM bytes over an output that starts empty.
DpsRecs(rom) == [offset : {0, 1}, mode : {1}, x : {0}, data : Data]
                \cup {[offset |-> o, mode |-> 0, x |-> x, data |-> Slice(rom, x, n)] : o \in {0, 2}, x \in {0, 1}, n \in {1, 2}}
DpsEnc(r) == <<r.mode, r.offset>> \o IF r.mode = 1 THEN <<Len(r.data)>> \o r.data ELSE <<r.x, Len(r.data)>>
DpsJobs == UNION {{[fmt |-> "dps", rom |-> rom, size |-> size, unstable |-> u, ignore |-> FALSE, want |-> Overlay(<<>>, recs),
                    recs |-> recs, pos |-> Starts(recs, DpsEnc, 0), layers |-> Layers(<<>>, recs),
                    patch |-> SubSeq(Encoded(recs, DpsEnc), 1, Len(Encoded(recs, DpsEnc)) - cut), whole |-> cut = 0] :
                     size \in {3, 2}, cut \in {c \in 0 .. 4 : c <= Len(Encoded(recs, DpsEnc))}, u \in BOOLEAN} :
                    rom \in {<<0, 1, 2>>}, recs \in Lists(DpsRecs(<<0, 1, 2>>), 2)}

-----------------------------------------------------------------------------
\* APS (GBA): files of up to three chunks of two bytes, and ROMs that are
\* half one file and half the other.
GbaFiles == {<<1, 2>>, <<1, 2, 3>>, <<1, 2, 0, 0>>, <<0, 0, 3, 0>>, <<1, 2, 3, 1, 0, 0>>, <<2, 1, 0, 3, 1, 1>>}
GbaRoms == GbaFiles \cup {<<1, 2, 0, 3, 0, 0>>, <<2, 1, 3, 1, 1>>, <<3>>}
GbaPad(f) == [i \in 1 .. 6 |-> IF i <= Len(f) THEN f[i] ELSE 0]
GbaChunk(x, y, k) == LET a == Slice(GbaPad(x), 2 * k, 2)
                         b == Slice(GbaPad(y), 2 * k, 2)
                     IN IF a = b THEN <<>>
                        ELSE <<[offset |-> 2 * k, crc1 |-> a, crc2 |-> b, data |-> [i \in 1 .. 2 |-> MCXor(a[i], b[i])]]>>
GbaJobs == {[fmt |-> "apsgba", magic |-> m, rom |-> rom, patch |-> <<>>, from |-> x, want |-> y, ignore |-> ignore,
             chunks |-> GbaChunk(x, y, 0) \o GbaChunk(x, y, 1) \o GbaChunk(x, y, 2), cut |-> cut, whole |-> cut = 0 /\ m = "APS1",
             size1 |-> Len(x), size2 |-> Len(y)] :
              m \in {"APS1", "none"}, rom \in GbaRoms, x \in GbaFiles, y \in GbaFiles, ignore \in BOOLEAN, cut \in {0, 1}}

-----------------------------------------------------------------------------
\* APS (N64).
N64Enc(r) == Little(r.offset, 1) \o IF r.rle THEN <<0, r.data[1], Len(r.data)>> ELSE <<Len(r.data)>> \o r.data
N64Jobs == UNION {{LET all == <<size>> \o Encoded(recs, N64Enc)
                       resized == [i \in 1 .. size |-> IF i <= 2 THEN <<0, 1>>[i] ELSE 0]
                   IN [fmt |-> "apsn64", rom |-> <<0, 1>>, size |-> size, patch |-> SubSeq(all, 1, Len(all) - cut), recs |-> recs,
                       ignore |-> FALSE, match |-> m, again |-> again, whole |-> cut = 0, want |-> Overlay(resized, recs),
                       pos |-> Starts(recs, N64Enc, 1), layers |-> Layers(resized, recs)] :
                     size \in {1, 3}, cut \in 0 .. 4, m \in {"same", "other", "wrong"}, again \in BOOLEAN} :
                    recs \in Lists([offset : {0, 2}, data : Data, rle : {FALSE}]
                                   \cup [offset : {1}, data : {<<2, 2>>}, rle : {TRUE}], 2)}

-----------------------------------------------------------------------------
\* BPS: every list of up to three commands that describes a target, and lists
\* of up to two that describe none, with the ROM and without.
BpsCmds == [mode : {"SourceRead"}, length : 1 .. 2, offset : {0}, data : {<<>>}]
              \cup {[mode |-> "TargetRead", length |-> Len(d), offset |-> 0, data |-> d] : d \in {<<1>>, <<0, 1>>}}
              \cup [mode : {"SourceCopy", "TargetCopy"}, length : 1 .. 2, offset : {-1, 0, 1}, data : {<<>>}]
BpsMarked(cmds) == [k \in 1 .. (Len(cmds) + 1) |->
    FoldLeft(LAMBDA m, c : [pos |-> m.pos + c.length,
                            source |-> IF c.mode = "SourceCopy" THEN m.source + c.offset + c.length ELSE m.source,
                            target |-> IF c.mode = "TargetCopy" THEN m.target + c.offset + c.length ELSE m.target],
             [pos |-> 0, source |-> 0, target |-> 0], SubSeq(cmds, 1, k - 1))]
BpsJob(S, T, cmds, rom, whole, ignore) ==
    [fmt |-> "bps", magic |-> "BPS1", small |-> FALSE, rom |-> rom, patch |-> <<>>, cmds |-> cmds, from |-> S, want |-> T,
     sourceSize |-> Len(S), targetSize |-> Len(T), intact |-> whole, whole |-> whole, ignore |-> ignore,
     readable |-> TRUE, marks |-> BpsMarked(cmds)]
BpsPairs == {<<0, 1>>} \X {<<1, 1, 1>>, <<0, 0, 1>>, <<1, 0, 1>>, <<0, 1>>}
BpsRoms == {<<0, 1>>, <<0, 1, 2>>, <<1, 1>>, <<0>>}
BpsWhole == {j \in {BpsJob(p[1], p[2], cmds, rom, TRUE, ignore) :
                       p \in BpsPairs, cmds \in Lists(BpsCmds, 3), rom \in BpsRoms, ignore \in BOOLEAN} : BpsMade(j)}
BpsDamaged == {[BpsJob(<<0, 1>>, <<1, 1, 1>>, cmds, rom, FALSE, ignore) EXCEPT !.magic = m, !.intact = i] :
                 cmds \in Lists(BpsCmds, 2), rom \in {<<0, 1>>}, ignore \in BOOLEAN, m \in {"BPS1", "none"}, i \in BOOLEAN}
BpsUnread == {[BpsJob(<<0, 1>>, <<1, 1, 1>>, cmds, <<0, 1>>, FALSE, FALSE) EXCEPT !.readable = FALSE, !.intact = TRUE] :
                 cmds \in Lists(BpsCmds, 2)}
BpsSmall == {[BpsJob(<<0, 1>>, <<1>>, <<>>, <<0, 1>>, FALSE, FALSE) EXCEPT !.small = TRUE]}
BpsJobs == BpsWhole \cup BpsDamaged \cup BpsUnread \cup BpsSmall
MCBpsLeft == {<<>>, <<1, 1, 1>>}

-----------------------------------------------------------------------------
\* bsdiff: every list of up to two triples; the streams that make it describe
\* a target, or streams that do not.
BsTriples == [x : 0 .. 2, y : 0 .. 1, z : {-2, 0, 1}]
BsOld == <<1, 2>>
BsMarked(ctrl) == [k \in 1 .. (Len(ctrl) + 1) |->
    FoldLeft(LAMBDA m, c : [new |-> m.new + c.x + c.y, oldpos |-> m.oldpos + c.x + c.z, diff |-> m.diff + c.x, extra |-> m.extra + c.y],
             [new |-> 0, oldpos |-> 0, diff |-> 0, extra |-> 0], SubSeq(ctrl, 1, k - 1))]
BsDiff(ctrl, T, k) == LET s == BsMarked(ctrl)[k] IN
    [i \in 1 .. ctrl[k].x |-> LET o == s.oldpos + i IN (T[s.new + i] - IF o \in 1 .. Len(BsOld) THEN BsOld[o] ELSE 0) % Base]
BsWhole == UNION {{[fmt |-> "bsdiff", magic |-> "BSDIFF40", rom |-> BsOld, patch |-> <<>>, ignore |-> FALSE, want |-> T,
                    whole |-> TRUE, newsize |-> Len(T), ctrl |-> ctrl, marks |-> BsMarked(ctrl),
                    diff |-> FoldLeft(LAMBDA s, k : s \o BsDiff(ctrl, T, k), <<>>, [k \in DOMAIN ctrl |-> k]),
                    extra |-> FoldLeft(LAMBDA s, k : s \o Slice(T, BsMarked(ctrl)[k].new + ctrl[k].x, ctrl[k].y), <<>>,
                                       [k \in DOMAIN ctrl |-> k])] :
                     ctrl \in {l \in Lists(BsTriples, 2) :
                                 FoldLeft(LAMBDA n, c : n + c.x + c.y, 0, l) = Len(T)
                                 /\ (Len(l) = 2 => l[1].x + l[1].y < Len(T))}} :
                    T \in {<<1, 2, 3>>, <<3, 0>>}}
BsDamaged == [fmt : {"bsdiff"}, magic : {"BSDIFF40", "none"}, rom : {BsOld}, patch : {<<>>}, ignore : {FALSE}, want : {<<>>},
              whole : {FALSE}, newsize : {-1, 2}, ctrl : Lists([x : {-1, 0, 2}, y : {-1, 1, 2}, z : {-2}], 2),
              diff : {<<1, 1>>}, extra : {<<2>>}]
BsJobs == BsWhole \cup BsDamaged

-----------------------------------------------------------------------------
\* XPC: pages of two bytes.
XpcJobs == UNION {{[fmt |-> "xpc", rom |-> rom, patch |-> <<>>, ignore |-> FALSE, want |-> rom, whole |-> whole, made |-> TRUE,
                    recs |-> recs] : rom \in {<<0, 1>>, <<0, 1, 2>>}, whole \in BOOLEAN} :
                    recs \in Lists([page : 0 .. 1, address : 0 .. 1, data : Data], 2)}

-----------------------------------------------------------------------------
\* UPS: every patch between two files of up to two bytes over three values,
\* with every footer that matters, and damaged streams.
Contents == BoundedSeq({0, 1, 3}, 2)
RECURSIVE Enc(_)
Enc(n) == IF n < Low THEN <<Low + n>> ELSE <<n % Low>> \o Enc(n \div Low - 1)
RECURSIVE Differing(_, _, _)
Differing(x, y, k) ==
    LET m == Max({Len(x), Len(y)})
        differ == {j \in k .. (m - 1) : Padded(x, j) # Padded(y, j)}
    IN IF differ = {} THEN <<>>
       ELSE LET b == Min(differ)
                e == Min({j \in b .. m : j = m \/ Padded(x, j) = Padded(y, j)})
            IN <<[rel |-> k, start |-> b, len |-> e - b]>> \o Differing(x, y, e + 1)
Feet == {<<0, 0>>, <<0, 3>>, <<1, 2>>, <<3, 0>>}
UpsJob(rom, ignore, stream, x, y, signed, intact, whole) ==
    [fmt |-> "ups", rom |-> rom, ignore |-> ignore, patch |-> stream, crcx |-> x, crcy |-> y, want |-> y,
     signed |-> signed, intact |-> intact, whole |-> whole]
UpsWhole(rom, ignore, x, y, foot) ==
    LET list == Differing(x, y, 0)
        head == Enc(Len(x)) \o Enc(Len(y))
        enc(b) == Enc(b.start - b.rel) \o [i \in 1 .. b.len |-> MCXor(Padded(x, b.start + i - 1), Padded(y, b.start + i - 1))] \o <<0>>
        pos == Starts(list, enc, Len(head))
    IN UpsJob(rom, ignore, head \o Encoded(list, enc) \o foot, x, y, TRUE, TRUE, TRUE)
         @@ [blocks |-> [k \in DOMAIN list |-> [start |-> list[k].start, len |-> list[k].len]],
             marks |-> [k \in DOMAIN pos |-> [pos |-> pos[k], rel |-> IF k = 1 THEN 0 ELSE list[k - 1].start + list[k - 1].len + 1]]]
UpsGenuine == {UpsWhole(<<x, y, <<3, 3>>>>[k], ignore, x, y, f) :
                 x \in Contents, y \in Contents, k \in 1 .. 3, ignore \in BOOLEAN, f \in Feet}
UpsDamaged == {UpsJob(rom, ignore, s \o <<0, 3>>, <<1>>, <<3, 0>>, b, c, FALSE) :
                 rom \in {<<1>>, <<3, 0>>, <<0>>}, ignore \in BOOLEAN, s \in BoundedSeq({0, 1, 2, 3}, 4), b \in BOOLEAN, c \in BOOLEAN}

UpsJobs == UpsGenuine \cup UpsDamaged

-----------------------------------------------------------------------------
\* ECM: up to two segments, and the same cut or damaged.
MCSync == <<3>>
SumOf(s) == LET sum[i \in 0 .. Len(s)] == IF i = 0 THEN 0 ELSE sum[i - 1] + i * s[i] IN sum[Len(s)]
MCEdc(s) == <<(SumOf(s) + 1) % Base>>
MCEcc(a, s) == <<(SumOf(a) + 3 * SumOf(s) + 2) % Base>>
Digits(n) == IF n < 2 THEN <<n>> ELSE IF n < 4 THEN <<n % 2, n \div 2>>
             ELSE IF n < 8 THEN <<n % 2, (n \div 2) % 2, n \div 4>> ELSE <<n % 2, (n \div 2) % 2, (n \div 4) % 2, n \div 8>>
Segment(type, n, data) == [type |-> type, digits |-> Digits(n - 1), data |-> data]
EcmSegs == {Segment(0, 1, <<2>>), Segment(0, 9, Fill(9, 3)), Segment(1, 1, <<1, 2>>), Segment(1, 2, <<0, 3, 2, 1>>),
            Segment(2, 1, <<3, 1>>), Segment(3, 1, <<2, 0, 3>>)}
ImageOf(c) ==
    LET image[q \in 0 .. (EcmCount(c.digits) + 1)] ==
          IF q = 0 THEN <<>> ELSE image[q - 1] \o SectorOf(Slice(c.data, (q - 1) * Stored(c.type), Stored(c.type)), c.type)
    IN IF c.type = 0 THEN c.data ELSE image[EcmCount(c.digits) + 1]
EcmEnd == [type |-> 0, digits |-> <<1, 1, 1, 1>>, data |-> <<>>]
EcmLists == Lists(EcmSegs, 2)
EcmImage(l) == Encoded(l, ImageOf)
EcmJob(segs, want, whole, before, exists, magic, noEdc) ==
    [fmt |-> "ecm", magic |-> magic, rom |-> <<>>, patch |-> <<>>, ignore |-> FALSE, want |-> want, whole |-> whole,
     segs |-> segs, before |-> before, exists |-> exists, noEdc |-> noEdc,
     marks |-> [k \in 1 .. Len(segs) |-> IF whole THEN Len(EcmImage(SubSeq(segs, 1, k - 1))) ELSE 0]]
EcmWhole == {EcmJob(Append(l, EcmEnd), EcmImage(l), TRUE, before, FALSE, "ECM", FALSE) : l \in EcmLists, before \in {0, 5}}
EcmShort == {[c EXCEPT !.data = SubSeq(@, 1, Len(@) - 1)] : c \in EcmSegs}
            \cup {[c EXCEPT !.digits = @ \o d] : c \in EcmSegs, d \in {<<1, 1, 1, 1>>, <<0, 0, 0, 0>>}}
EcmCut == {EcmJob(l \o <<c, EcmEnd>>, EcmImage(l) \o ImageOf(c), FALSE, 0, FALSE, "ECM", FALSE) : l \in Lists(EcmSegs, 1), c \in EcmShort}
          \cup {EcmJob(l \o e, EcmImage(l), FALSE, 0, exists, magic, noEdc) : l \in Lists(EcmSegs, 1), e \in {<<>>, <<EcmEnd>>},
                   exists \in BOOLEAN, magic \in {"ECM", "none"}, noEdc \in BOOLEAN}
          \cup {EcmJob(<<c, EcmEnd>>, <<1>>, FALSE, 0, FALSE, "ECM", FALSE) : c \in EcmSegs}
EcmJobs == EcmWhole \cup EcmCut

-----------------------------------------------------------------------------
\* DLDI: a driver of 64 bytes, its header with addresses of four bytes and
\* four words of code (text, glue, got, got) before the bss.  It is linked at
\* 128: what has a 2 in its highest byte is an address of the driver.
MCDldiMagic == <<3, 1, 3, 0>>
MCHeaderPtrs == <<"text_start", "data_end", "glue_start", "glue_end", "got_start", "got_end", "bss_start", "bss_end", "startup">>
MCDO == [version |-> 4, driverSize |-> 5, fixSections |-> 6, allocatedSpace |-> 7,
         text_start |-> 8, data_end |-> 12, glue_start |-> 16, glue_end |-> 20, got_start |-> 24,
         got_end |-> 28, bss_start |-> 32, bss_end |-> 36, startup |-> 40, code |-> 44]
HeaderRel == <<0, 60, 48, 52, 52, 60, 60, 63, 48>>
MCFixes(b) == CASE b = 0 -> {"all", "glue", "got", "bss"} [] b = 1 -> {"all"} [] OTHER -> {"glue", "got", "bss"}
MCDriverLen(b) == 8 * 2 ^ b
DldiWord(base, w) == IF w.ptr THEN Little(base + w.n, 4) ELSE Little(w.n, 4)
Driver(base, fix, room, code, bss) ==
    MCDldiMagic \o <<1, 3, fix, room>> \o Encoded(HeaderRel, LAMBDA r : Little(base + r, 4))
    \o Encoded(code, LAMBDA w : DldiWord(base, w)) \o (IF "bss" \in MCFixes(fix) THEN bss ELSE <<1, 1, 1>>) \o <<3>>
Address == [ptr |-> TRUE, n |-> 52]
Datum == [ptr |-> FALSE, n |-> 71]
DldiCodes(fix) == {<<a, b, c, d>> : a \in IF fix = 3 THEN {Datum} ELSE {Datum, Address}, b \in {Datum, Address}, c \in {Datum}, d \in {Address}}
OldDriver(mem, given, room) ==
    MCDldiMagic \o <<0, 0, 0, room>> \o Little(IF given THEN mem ELSE 0, 4) \o Fill(28, 0) \o Little(mem + 44, 4) \o Fill(20, 1)
DldiJob(fix, code, mem, given, room, whole) ==
    LET before == Fill(4, 3)
        behind == Fill(3, 1)
    IN [fmt |-> "dldi", rom |-> before \o OldDriver(mem, given, room) \o behind, ignore |-> FALSE, whole |-> whole,
        patch |-> Driver(128, fix, 0, code, <<1, 1, 1>>),
        ptrs |-> {MCDO[MCHeaderPtrs[i]] : i \in 1 .. Len(MCHeaderPtrs)} \cup {40 + 4 * i : i \in {k \in 1 .. 4 : code[k].ptr}},
        want |-> before \o Driver(mem, fix, room, code, <<0, 0, 0>>) \o behind]
DldiWhole == UNION {{DldiJob(fix, code, mem, given, 3, TRUE) : code \in DldiCodes(fix), mem \in {16, 64, 192}, given \in BOOLEAN} :
                      fix \in {0, 1, 3}}
\* Too little room, a driver linked where the application has it, files that
\* are not an application or a driver.
DldiOther == LET j == DldiJob(0, <<Datum, Address, Datum, Address>>, 144, TRUE, 3, FALSE) IN
             {j, DldiJob(0, <<Datum, Address, Datum, Address>>, 64, TRUE, 2, FALSE), [j EXCEPT !.rom = <<1, 2, 3>>],
              [j EXCEPT !.rom = <<0>> \o @], [j EXCEPT !.patch[1] = 0], [j EXCEPT !.patch[5] = 0]}
DldiJobs == DldiWhole \cup DldiOther

-----------------------------------------------------------------------------
MCJobs(f) == CASE f \in IpsFormats -> IpsJobs(f)
               [] f = "ppf" -> PpfJobs
               [] f = "dps" -> DpsJobs
               [] f = "apsgba" -> GbaJobs
               [] f = "apsn64" -> N64Jobs
               [] f = "bps" -> BpsJobs
               [] f = "bsdiff" -> BsJobs
               [] f = "xpc" -> XpcJobs
               [] f = "ups" -> UpsJobs
               [] f = "ecm" -> EcmJobs
               [] f = "dldi" -> DldiJobs
\* The PPF calls alone.
MCPpfJobs(f) == IF f = "ppf" THEN PpfJobs ELSE {}
=============================================================================
