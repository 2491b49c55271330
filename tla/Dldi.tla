-------------------------------- MODULE Dldi --------------------------------
(* dlditool.c: a driver is copied over the one an application reserves room  *)
(* for, and every address in it that points into the driver is moved from    *)
(* where the driver was linked to where the application has it in memory.    *)
(* The calls are those where driver and reserved room lie within their       *)
(* files and the sections within the driver; outside that the code reads and *)
(* writes wherever the headers say.                                          *)
EXTENDS PatchIO

CONSTANTS DldiMagic,        \* 12 bytes, found at a multiple of PtrLen only
          PtrLen,           \* 4
          DLDI_VERSION,
          DO,               \* the offset of each field of the header
          HeaderPtrs,       \* its fields that are addresses, in the order they are fixed
          Fixes(_),         \* the sections that the byte fixSections asks to fix
          DriverLen(_)      \* 1 << driverSize

\* addr_t is signed.
Weight == <<1, Base, Base * Base, Base * Base * Base, Base * Base * Base * Base>>
Signed(v) == LET r == Weight[PtrLen + 1] IN IF v % r >= r \div 2 THEN (v % r) - r ELSE v % r
readAddr(m, k) == Signed(LE(Slice(m, k, PtrLen)))
writeAddr(m, k, v) == Put(m, k, [i \in 1 .. PtrLen |-> (v \div Weight[i]) % Base])
pDH(j, f) == j.patch[DO[f] + 1]
ddmemStart(j) == readAddr(j.patch, DO.text_start)
ddmemSize(j) == DriverLen(pDH(j, "driverSize"))

Found(j) == {k \in 0 .. Len(j.rom) : k % PtrLen = 0 /\ Slice(j.rom, k, Len(DldiMagic)) = DldiMagic}
quickFind(j) == IF Found(j) = {} THEN -1 ELSE Min(Found(j))
App(j) == SubSeq(j.rom, quickFind(j) + 1, Len(j.rom))

\* Where the application has its driver in memory.
memOffset(app) == IF readAddr(app, DO.text_start) # 0 THEN readAddr(app, DO.text_start)
                  ELSE Signed(readAddr(app, DO.startup) - DO.code)
Relocation(j) == Signed(memOffset(App(j)) - ddmemStart(j))

Usable(j) == /\ Slice(j.patch, 0, Len(DldiMagic)) = DldiMagic /\ pDH(j, "version") = DLDI_VERSION
             /\ pDH(j, "driverSize") <= App(j)[DO.allocatedSpace + 1]

\* The driver, with the room the application has, over the application's.
DriverCopy(j) == Put(App(j), 0, [j.patch EXCEPT ![DO.allocatedSpace + 1] = App(j)[DO.allocatedSpace + 1]])

\* The sections of the driver.
Bounds == [all |-> <<"text_start", "data_end">>, glue |-> <<"glue_start", "glue_end">>,
           got |-> <<"got_start", "got_end">>, bss |-> <<"bss_start", "bss_end">>]
SectionStart(j, s) == readAddr(j.patch, DO[Bounds[s][1]]) - ddmemStart(j)
SectionEnd(j, s) == readAddr(j.patch, DO[Bounds[s][2]]) - ddmemStart(j)
Fixed(j) == Fixes(pDH(j, "fixSections"))
InDriver(j, a) == ddmemStart(j) <= a /\ a < ddmemStart(j) + ddmemSize(j)

\* What is copied with its addresses at the places M moved; and a driver that
\* has addresses at the places ptrs, apart from each other, in the header or
\* in a section: however many are moved, what reads as an address of the
\* driver is one that is left.
PtrByte(j, p, i) == ((readAddr(DriverCopy(j), p) + Relocation(j)) \div Weight[i]) % Base
Image(j, M) == LET c == DriverCopy(j) IN
    [i \in 1 .. Len(c) |-> IF \E p \in M : i - p \in 1 .. PtrLen
                           THEN LET q == CHOOSE p \in M : i - p \in 1 .. PtrLen IN PtrByte(j, q, i - q)
                           ELSE c[i]]
Header == {DO[HeaderPtrs[i]] : i \in 1 .. Len(HeaderPtrs)}
Searched(j) == Fixed(j) \ {"bss"}
Section(j, s) == SectionStart(j, s) .. (SectionEnd(j, s) - 1)
DldiMade(j) ==
    /\ quickFind(j) >= 0 /\ Usable(j)
    /\ j.ptrs \subseteq 0 .. (Len(DriverCopy(j)) - PtrLen) /\ \A p, q \in j.ptrs : p < q => p + PtrLen <= q
    /\ Header \subseteq j.ptrs /\ \A p \in j.ptrs \ Header : \E s \in Searched(j) : p \in Section(j, s)
    /\ \A M \in SUBSET j.ptrs : Header \subseteq M =>
         \E m \in {Image(j, M)} : \A s \in Searched(j) : \A a \in Section(j, s) :
           InDriver(j, readAddr(m, a)) <=> a \in j.ptrs \ M
    /\ Len(j.want) = Len(j.rom) /\ quickFind(j) + ddmemSize(j) <= Len(j.rom)
    /\ \E m \in {Image(j, j.ptrs)} : \A i \in 1 .. Len(j.want) : LET k == i - quickFind(j) IN
         j.want[i] = IF k \notin 1 .. ddmemSize(j) THEN j.rom[i]
                     ELSE IF "bss" \in Fixed(j) /\ k - 1 \in Section(j, "bss") THEN 0 ELSE m[k]
DldiSane(j) == /\ \A f \in DOMAIN DO : DO[f] < Len(j.patch) /\ (quickFind(j) >= 0 => DO[f] < Len(App(j)))
               /\ \A s \in Fixed(j) : SectionStart(j, s) \in 0 .. SectionEnd(j, s)
DldiFields == {"version", "driverSize", "fixSections", "allocatedSpace", "text_start", "data_end", "glue_start",
               "glue_end", "got_start", "got_end", "bss_start", "bss_end", "startup", "code"}
ASSUME DldiAssumption ==
    /\ DldiMagic \in File /\ PtrLen \in 1 .. 4 /\ DLDI_VERSION \in Byte
    /\ DldiFields \subseteq DOMAIN DO /\ (\A f \in DOMAIN DO : DO[f] \in Nat) /\ HeaderPtrs \in Seq(DOMAIN DO)
    /\ \A i, k \in 1 .. Len(HeaderPtrs) : i # k => DO[HeaderPtrs[i]] # DO[HeaderPtrs[k]]
    /\ \A b \in Byte : DriverLen(b) \in Nat \ {0} /\ Fixes(b) \subseteq DOMAIN Bounds
    /\ \A j \in Jobs("dldi") : DldiSane(j) /\ (j.whole => DldiMade(j))

DldiInit == /\ job \in Jobs("dldi") /\ out = job.rom /\ disk = job.rom /\ pc = "open" /\ ret = 0
            /\ loc = [pAH |-> <<>>, relocationOffset |-> 0, n |-> 0, io |-> FALSE] /\ at = 0           \* at: patchOffset

\* Load both files, check them, and copy the driver in memory.
dldipatch ==
    /\ pc = "open" /\ UNCHANGED <<job, out>>
    /\ \/ Close(1) /\ UNCHANGED <<at, loc>>                        \* a file or the memory is not there
       \/ quickFind(job) = -1 /\ Close(2) /\ UNCHANGED <<at, loc>>
       \/ quickFind(job) >= 0 /\ ~Usable(job) /\ Close(1) /\ UNCHANGED <<at, loc>>
       \/ /\ quickFind(job) >= 0 /\ Usable(job)
          /\ at' = quickFind(job) /\ pc' = "header" /\ UNCHANGED <<ret, disk>>
          /\ loc' = [loc EXCEPT !.pAH = DriverCopy(job), !.relocationOffset = Relocation(job)]

\* What is at k in memory, and the memory with the address at k moved.
WordLinked(k) == readAddr(DriverCopy(job), k)                    \* mutant: of the driver as it was linked
Word(k) == readAddr(loc.pAH, k)
Moved(k) == {writeAddr(loc.pAH, k, a + loc.relocationOffset) : a \in {readAddr(loc.pAH, k)}}

FixHeader ==
    /\ pc = "header"
    /\ \/ /\ loc.n < Len(HeaderPtrs) /\ pc' = pc
          /\ \E m \in Moved(DO[HeaderPtrs[loc.n + 1]]) : loc' = [loc EXCEPT !.n = @ + 1, !.pAH = m]
       \/ loc.n = Len(HeaderPtrs) /\ loc' = [loc EXCEPT !.n = 0] /\ pc' = "all"
    /\ UNCHANGED <<job, out, disk, at, ret>>

\* The three searches: every byte of the section may start an address, those
\* of the header and of addresses already moved included.
After3 == [all |-> "glue", glue |-> "got", got |-> "bss"]
FixSection ==
    /\ pc \in DOMAIN After3
    /\ \E addrIter \in {SectionStart(job, pc) + loc.n} :
         LET more == pc \in Fixed(job) /\ addrIter < SectionEnd(job, pc) IN
         \/ /\ more /\ pc' = pc
            /\ \E a \in {Word(addrIter)} :
                 \E m \in IF InDriver(job, a) THEN Moved(addrIter) ELSE {loc.pAH} :
                   loc' = [loc EXCEPT !.n = @ + 1, !.pAH = m]
         \/ ~more /\ loc' = [loc EXCEPT !.n = 0] /\ pc' = After3[pc]
    /\ UNCHANGED <<job, out, disk, at, ret>>

\* Clear the bss and write the driver back; whether it could be written is
\* not looked at.
Cleared == IF "bss" \notin Fixed(job) THEN loc.pAH
           ELSE Put(loc.pAH, SectionStart(job, "bss"), Fill(SectionEnd(job, "bss") - SectionStart(job, "bss"), 0))
WriteBack == /\ pc = "bss" /\ pc' = "done" /\ ret' = 0
             /\ \/ out' = Put(out, at, Slice(Cleared, 0, ddmemSize(job))) /\ loc' = loc
                \/ /\ \E n \in 0 .. (ddmemSize(job) - 1) : out' = Put(out, at, Slice(Cleared, 0, n))
                   /\ loc' = [loc EXCEPT !.io = TRUE]
             /\ disk' = out' /\ UNCHANGED <<job, at>>

DldiNext == dldipatch \/ FixHeader \/ FixSection \/ WriteBack

-----------------------------------------------------------------------------
(* The driver in the application is the one that linking it at the           *)
(* application's address would have given: every address of it is moved      *)
(* exactly once although three overlapping sections are searched byte by     *)
(* byte, the header among them, and nothing else of the application changes. *)
(* (For drivers linked far from the application, with no other bytes that    *)
(* read as one of their addresses.)  A failure leaves the application alone. *)
DldiRelocated == job.fmt = "dldi" /\ pc = "done" =>
                   /\ job.whole /\ ~loc.io /\ ret # 1 => ret = 0 /\ disk = job.want
                   /\ ret # 0 => disk = job.rom
=============================================================================
