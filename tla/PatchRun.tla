------------------------------ MODULE PatchRun ------------------------------
(* What one press of "Patch" does to the files of the ROM's directory:       *)
(* MainActivity.patchCheck (the overwrite dialog) and the worker thread of   *)
(* MainActivity.patch, one action per step that touches the file system, so  *)
(* that the process may be killed between any two of them.                   *)
(*                                                                           *)
(* A file name is <<directory, <<text, n>>>>: a text with the ROM's          *)
(* extension appended n times.  The ROM is called stem + extension.  A       *)
(* content is a number: 0 no file, 1 the user's ROM, 2 any other file of the *)
(* user, and for the n-th run 2n+1 the correctly patched ROM and 2n+2 any    *)
(* truncated or half-written output.                                         *)
EXTENDS Naturals

CONSTANTS Kinds,      \* the patch types that may be chosen
          Typed,      \* the texts the user may type as the output name
          MaxRuns,    \* bound: how often the user presses Patch
          MaxExts     \* bound: extensions a name can collect

(* Types whose native patcher writes ROMname.new, types whose backup Java    *)
(* copies before patching in place, and the types handled on their own.      *)
NewKinds  == {"ups", "xdelta", "bps", "dps", "bsdiff", "xpc"}
CopyKinds == {"aps", "ppf", "asm", "dldi"}
AllKinds  == NewKinds \cup CopyKinds \cup {"ips", "nmp", "ecm"}

Bases == {"", "stem", "bak", "new", "patch", "other"}
Texts == Bases \X (0 .. MaxExts)
Paths == {"here", "parent"} \X Texts

ASSUME KindsAssumption == Kinds \subseteq AllKinds
ASSUME TypedAssumption == Typed \subseteq Texts
ASSUME BoundAssumption == MaxRuns \in Nat /\ MaxExts \in Nat \ {0}

VARIABLES fs,        \* [Paths -> content]
          ed,        \* the text of the output name field
          pc,        \* where the run is
          opt,       \* what the run was started with
          asked,     \* the user agreed to overwrite existing files
          copied,    \* how the backup copy went: "none", "ok" or "bad"
          made,      \* the content a successful patcher produced, or 0
          failed,    \* msg is no longer R.string.success
          outcome,   \* how the last run ended
          myError,   \* the static error of ecm.c is set
          runs
vars == <<fs, ed, pc, opt, asked, copied, made, failed, outcome, myError, runs>>

Absent == 0
Good   == 2 * runs + 1
Bad    == 2 * runs + 2

In(t)     == <<"here", t>>
Dir       == In(<<"", 0>>)
Rom       == In(<<"stem", 1>>)
Bak       == In(<<"bak", 0>>)
New       == In(<<"new", 0>>)
Patch     == In(<<"patch", 0>>)
Decoded   == In(<<"stem", 0>>)            \* ROM name without its extension
AddExt(t) == <<t[1], t[2] + 1>>
\* The directory's name and the text joined without the '/' between them.
Beside(t) == IF t = <<"", 0>> THEN Dir ELSE <<"parent", t>>

-----------------------------------------------------------------------------
(* java.io.File: the directory itself exists, cannot be deleted (it is not   *)
(* empty) and nothing can be renamed onto it.                                *)
renameOnto(f, p, q) == IF f[p] = Absent \/ p = q THEN f         \* mutant
                       ELSE [f EXCEPT ![q] = f[p], ![p] = Absent]
Exists(p)    == p = Dir \/ fs[p] # Absent
Delete(f, p) == [f EXCEPT ![p] = Absent]
renameTo(f, p, q) == IF f[p] = Absent \/ q = Dir \/ p = q THEN f
                     ELSE [f EXCEPT ![q] = f[p], ![p] = Absent]

Before   == opt.old[Rom]
Idle     == pc = "idle"
Goto(l)  == pc' = l
Finish(o) == outcome' = o /\ pc' = "idle"

Options == [kind : Kinds, c : BOOLEAN, d : BOOLEAN, e : BOOLEAN,
            typed : Texts, old : [Paths -> Nat]]

\* Leftovers of earlier work: a backup, and a file with an output's name.
Leftovers == {Bak, In(<<"other", 1>>)}

Init == /\ \E L \in SUBSET Leftovers :
             fs = [p \in Paths |-> IF p = Rom THEN 1
                                   ELSE IF p \in L \cup {Patch} THEN 2 ELSE Absent]
        /\ ed = <<"", 0>> /\ pc = "idle"
        /\ \E k \in Kinds : opt = [kind |-> k, c |-> TRUE, d |-> FALSE, e |-> FALSE,
                                 typed |-> <<"", 0>>, old |-> fs]
        /\ asked = FALSE /\ copied = "none" /\ made = 0 /\ failed = FALSE
        /\ outcome = "none" /\ myError = FALSE /\ runs = 0

\* The user edits the output name.
Type(t) == /\ Idle /\ ed' = t
           /\ UNCHANGED <<fs, pc, opt, asked, copied, made, failed, outcome, myError, runs>>

ConflictNoBak(k, c, d, t) == \/ k = "ecm" /\ Exists(Decoded)   \* mutant
                             \/ Exists(New)
                             \/ Exists(In(t)) /\ d /\ c
Conflict(k, c, d, t) == \/ Exists(Bak)
                        \/ k = "ecm" /\ Exists(Decoded)
                        \/ Exists(New)
                        \/ Exists(In(t)) /\ d /\ c

\* The extension is appended to the text field itself before patch() starts.
AppendExt(c, d, e) == ed' = IF d /\ c /\ e THEN AddExt(ed) ELSE ed

\* The Patch button: patchCheck.  The ROM stays the same file: an .ecm or not.
Apply(k, c, d, e) ==
    LET t == IF e THEN AddExt(ed) ELSE ed IN
    /\ Idle /\ runs < MaxRuns /\ ed[2] < MaxExts
    /\ (k = "ecm") = (opt.kind = "ecm")
    /\ opt' = [kind |-> k, c |-> c, d |-> d, e |-> e, typed |-> t, old |-> fs]
    /\ IF Conflict(k, c, d, t) THEN Goto("dialog") /\ ed' = ed
                               ELSE Goto("begin") /\ AppendExt(c, d, e)
    /\ asked' = FALSE /\ copied' = "none" /\ made' = 0 /\ failed' = FALSE
    /\ outcome' = "none" /\ runs' = runs + 1
    /\ UNCHANGED <<fs, myError>>

\* "Yes": all four names are deleted, the output name whatever d and c are.
Confirm ==
    LET f1 == Delete(Delete(fs, Bak), New)
        f2 == IF opt.kind = "ecm" THEN Delete(f1, Decoded) ELSE f1
    IN /\ pc = "dialog"
       /\ fs' = Delete(f2, In(opt.typed))
       /\ AppendExt(opt.c, opt.d, opt.e)
       /\ asked' = TRUE /\ Goto("begin")
       /\ UNCHANGED <<opt, copied, made, failed, outcome, myError, runs>>

\* "Cancel".
Cancel == /\ pc = "dialog" /\ Finish("canceled")
          /\ UNCHANGED <<fs, ed, opt, asked, copied, made, failed, myError, runs>>

-----------------------------------------------------------------------------
(* The worker thread.                                                        *)
IsEcm       == opt.kind = "ecm"
FilesThere  == Exists(Patch) /\ Exists(Rom)
Renames     == opt.c /\ opt.d
NmpRenames  == opt.kind = "nmp" /\ Renames /\ opt.typed # <<"", 0>>
NoFileIO    == UNCHANGED <<fs, ed, opt, asked, copied, made, failed, myError, runs>>
OnlyFiles   == UNCHANGED <<ed, opt, asked, copied, made, failed, outcome, myError, runs>>

\* Either file is gone: "File not found."
NotFound == pc = "begin" /\ ~IsEcm /\ ~FilesThere /\ Finish("fnf") /\ NoFileIO

\* canWrite() is false.
Unwritable == pc = "begin" /\ ~IsEcm /\ FilesThere /\ Finish("error") /\ NoFileIO

Dispatch ==
    /\ pc = "begin" /\ (IsEcm \/ FilesThere)
    /\ \/ IsEcm /\ Goto("ecm") /\ failed' = failed
       \/ opt.kind \in NewKinds /\ Goto("native") /\ failed' = failed
       \/ opt.kind \in CopyKinds /\ Goto("copy") /\ failed' = failed
       \/ opt.kind = "ips" /\ Goto("ipsOpen") /\ failed' = failed
       \/ opt.kind = "nmp" /\ Goto(IF opt.c THEN "copy" ELSE "native") /\ failed' = failed
       \* the build that is not the donation build only sets the message
       \/ opt.kind = "nmp" /\ Goto("tail") /\ failed' = TRUE
    /\ UNCHANGED <<fs, ed, opt, asked, copied, made, outcome, myError, runs>>

\* Files.copy(rom, bak); an IOException is printed and ignored.
Copy ==
    /\ pc = "copy" /\ Goto("native")
    /\ \/ fs' = [fs EXCEPT ![Bak] = fs[Rom]] /\ copied' = "ok"
       \/ \E x \in {fs[Bak], Bad} : fs' = [fs EXCEPT ![Bak] = x] /\ copied' = "bad"
    /\ UNCHANGED <<ed, opt, asked, made, failed, outcome, myError, runs>>

\* The patch exists but cannot be opened: the thread returns at once.
PatchUnreadable == /\ pc \in {"native", "ipsOpen"}
                   /\ opt.kind \in {"xdelta", "aps", "ips"}
                   /\ Finish("fnf") /\ NoFileIO

\* A patcher that writes ROMname.new.  xpcapply has no error return, it exits
\* (Killed); dps may report a complete output as an error ("unstable").
PatchNew ==
    /\ pc = "native" /\ opt.kind \in NewKinds /\ Goto("swap1")
    /\ \/ fs' = [fs EXCEPT ![New] = Good] /\ made' = Good
          /\ failed' \in (IF opt.kind = "dps" THEN BOOLEAN ELSE {FALSE})
       \/ opt.kind # "xpc" /\ failed' = TRUE /\ made' = 0
          /\ \E x \in {fs[New], Bad} : fs' = [fs EXCEPT ![New] = x]
    /\ UNCHANGED <<ed, opt, asked, copied, outcome, myError, runs>>

\* A patcher that writes into the ROM.  RealPatch.patch returns normally
\* when the file is not an NMP patch.
PatchInPlace ==
    /\ \/ pc = "native" /\ opt.kind \in CopyKinds \cup {"nmp"}
       \/ pc = "ipsRecords"
    /\ Goto(IF NmpRenames THEN "nmpRen1" ELSE "tail")
    /\ \/ fs' = [fs EXCEPT ![Rom] = Good] /\ made' = Good /\ failed' = FALSE
       \/ failed' = TRUE /\ made' = 0
          /\ \E x \in {fs[Rom], Bad} : fs' = [fs EXCEPT ![Rom] = x]
       \/ opt.kind = "nmp" /\ UNCHANGED <<fs, made, failed>>
    /\ UNCHANGED <<ed, opt, asked, copied, outcome, myError, runs>>

\* IPSOpen: the patch is rejected before the backup is made, ...
IpsReject == /\ pc = "ipsOpen" /\ failed' = TRUE /\ Goto("tail")
             /\ UNCHANGED <<fs, ed, opt, asked, copied, made, outcome, myError, runs>>

\* ... or the ROM is copied to ROMname.bak, short writes going unnoticed.
IpsBackup ==
    /\ pc = "ipsOpen" /\ Goto("ipsRecords")
    /\ \/ fs' = [fs EXCEPT ![Bak] = fs[Rom]] /\ copied' = "ok"
       \/ fs' = [fs EXCEPT ![Bak] = Bad] /\ copied' = "bad"
    /\ UNCHANGED <<ed, opt, asked, made, failed, outcome, myError, runs>>

\* The renames of the NMP branch, before the ones all types share.
NmpRename1 == pc = "nmpRen1" /\ fs' = renameTo(fs, Rom, In(opt.typed)) /\ Goto("nmpRen2") /\ OnlyFiles
NmpRename2 == pc = "nmpRen2" /\ fs' = renameTo(fs, Bak, Rom) /\ Goto("tail") /\ OnlyFiles

\* ROM -> .bak, .new -> ROM, whether or not the patcher succeeded.
Swap1 == pc = "swap1" /\ fs' = renameTo(fs, Rom, Bak) /\ Goto("swap2") /\ OnlyFiles
Swap2ToBak == pc = "swap2" /\ fs' = renameTo(fs, New, Bak) /\ Goto("tail") /\ OnlyFiles  \* mutant
Swap2 == pc = "swap2" /\ fs' = renameTo(fs, New, Rom) /\ Goto("tail") /\ OnlyFiles

\* mutant: the backup is dropped whether it was asked for or not
DropAlways == pc = "tail" /\ fs' = Delete(fs, Bak) /\ Goto("report") /\ OnlyFiles
DropBackup == pc = "tail" /\ ~opt.c /\ fs' = Delete(fs, Bak) /\ Goto("report") /\ OnlyFiles
KeepBackup == pc = "tail" /\ opt.c /\ ~opt.d /\ fs' = fs /\ Goto("report") /\ OnlyFiles
Rename1 == pc = "tail" /\ Renames /\ fs' = renameTo(fs, Rom, In(opt.typed)) /\ Goto("rename2") /\ OnlyFiles
Rename2Skipped == pc = "rename2" /\ fs' = fs /\ Goto("report") /\ OnlyFiles  \* mutant
Rename2 == pc = "rename2" /\ fs' = renameTo(fs, Bak, Rom) /\ Goto("report") /\ OnlyFiles

\* unecm refuses an existing output, and returns the static error code, which
\* no call resets.
EcmOut == IF Renames THEN Beside(opt.typed) ELSE Decoded
EcmDecode ==
    /\ pc = "ecm" /\ Goto("report")
    /\ \/ /\ Exists(Rom) /\ ~Exists(EcmOut)
          /\ fs' = [fs EXCEPT ![EcmOut] = Good] /\ made' = Good
          /\ myError' = myError
       \/ /\ fs' = fs \/ (Exists(Rom) /\ ~Exists(EcmOut) /\ fs' = [fs EXCEPT ![EcmOut] = Bad])
          /\ made' = 0 /\ myError' = TRUE
    /\ failed' = myError'
    /\ UNCHANGED <<ed, opt, asked, copied, outcome, runs>>

Report == /\ pc = "report" /\ Finish(IF failed THEN "error" ELSE "success") /\ NoFileIO

\* The process dies: exit() in a native patcher, a crash, or the system's
\* low-memory killer.  The native library's static state goes with it.
Killed == /\ ~Idle /\ Finish("killed") /\ ed' = <<"", 0>> /\ myError' = FALSE
          /\ UNCHANGED <<fs, opt, asked, copied, made, failed, runs>>

User    == \/ \E t \in Typed : Type(t)
           \/ \E k \in Kinds, c, d, e \in BOOLEAN : Apply(k, c, d, e)
           \/ Confirm \/ Cancel
Prepare == NotFound \/ Unwritable \/ Dispatch \/ Copy \/ PatchUnreadable
Native  == PatchNew \/ PatchInPlace \/ IpsReject \/ IpsBackup \/ EcmDecode
Tail    == \/ NmpRename1 \/ NmpRename2 \/ Swap1 \/ Swap2
           \/ DropBackup \/ KeepBackup \/ Rename1 \/ Rename2 \/ Report
Next == User \/ Prepare \/ Native \/ Tail \/ Killed
Spec == Init /\ [][Next]_vars

-----------------------------------------------------------------------------
Labels == {"idle", "dialog", "begin", "copy", "native", "ipsOpen", "ipsRecords", "ecm",
           "nmpRen1", "nmpRen2", "swap1", "swap2", "tail", "rename2", "report"}

FlagsOK == asked \in BOOLEAN /\ failed \in BOOLEAN /\ myError \in BOOLEAN

\* Every variable keeps its type; the directory never becomes a file.
TypeOK == /\ fs \in [Paths -> Nat] /\ fs[Dir] = Absent
          /\ ed \in Texts /\ pc \in Labels /\ opt \in Options
          /\ copied \in {"none", "ok", "bad"} /\ made \in Nat
          /\ outcome \in {"none", "success", "error", "fnf", "killed", "canceled"}
          /\ runs \in 0 .. MaxRuns
          /\ FlagsOK

(* With "Backup ROM" checked (or for an .ecm, which is only read) the bytes  *)
(* that were the ROM when Patch was pressed are in some file after every     *)
(* step of patch(), whatever the patcher did and wherever the process died,  *)
(* unless the backup copy itself failed or the output name typed is the      *)
(* ROM's own name or its backup's.                                           *)
OriginalSurvives ==
    (opt.c \/ IsEcm) /\ copied # "bad" /\ In(opt.typed) \notin {Rom, Bak}
    => \E p \in Paths : fs[p] = Before

(* A file that was there when Patch was pressed, other than the ROM, is      *)
(* changed or removed only if the overwrite dialog was shown and accepted:   *)
(* patchCheck's test covers every name that patch() and the native code      *)
(* write, the file renamed by "Rename patched ROM" included.                 *)
OnlyAskedOverwrites ==
    ~asked => \A p \in Paths \ {Rom} : opt.old[p] # Absent => fs[p] = opt.old[p]

(* When "Patching successful." is reported by a type other than NMP and ECM, *)
(* the backup copy did not fail and the output name is usable, each file is  *)
(* where the three check boxes say: no leftover .new, and .bak holds the     *)
(* original exactly if it was to be kept under that name.                    *)
SuccessLayout ==
    /\ outcome = "success" /\ opt.kind \notin {"nmp", "ecm"} /\ copied # "bad"
    /\ In(opt.typed) \notin {Rom, Bak, New, Dir}
    => /\ fs[New] = Absent
       /\ IF Renames THEN fs[In(opt.typed)] = made /\ fs[Rom] = Before /\ fs[Bak] = Absent
          ELSE fs[Rom] = made /\ fs[Bak] = IF opt.c THEN Before ELSE Absent

(* Once a patcher has produced a correct output, at every later step of that *)
(* run either the original or the patched ROM exists, even if no backup was  *)
(* asked for and the process dies between two renames.                       *)
PatchedNeverLosesBoth ==
    made # 0 /\ copied # "bad" /\ In(opt.typed) \notin {Rom, Bak}
    => \E p \in Paths : fs[p] \in {Before, made} \ {Absent}

-----------------------------------------------------------------------------
(* Where the original is at each step of a run that must preserve it: the    *)
(* strengthening that makes OriginalSurvives inductive.                      *)
Preserving == (opt.c \/ IsEcm) /\ copied # "bad" /\ In(opt.typed) \notin {Rom, Bak}
Somewhere  == \E p \in Paths : fs[p] = Before
WhereOriginal ==
    /\ pc \in {"dialog", "begin", "copy", "ipsOpen", "ecm", "swap1"} => fs[Rom] = Before
    /\ pc \in {"begin", "ipsOpen"} => fs[Bak] = Absent
    /\ pc = "native" => fs[IF opt.kind \in NewKinds THEN Rom ELSE Bak] = Before
    /\ pc \in {"ipsRecords", "nmpRen1", "nmpRen2", "swap2"} => fs[Bak] = Before
    /\ pc = "tail" => fs[Bak] = Before \/ (fs[Bak] = Absent /\ fs[Rom] = Before)
    /\ pc = "rename2" => fs[Bak] = Before \/ (fs[Bak] = Absent /\ Somewhere)
    /\ pc \in {"idle", "report"} => Somewhere
    /\ pc \notin {"idle", "dialog", "begin", "ecm", "report"} => Before # Absent
OriginalIInv ==
    /\ TypeOK
    /\ pc = "dialog" => ed[2] < MaxExts
    /\ pc \in {"dialog", "begin", "copy", "ipsOpen"} => copied = "none"
    /\ pc = "copy" => opt.kind \notin NewKinds
    /\ IsEcm => pc \in {"idle", "dialog", "begin", "ecm", "report"}
    /\ Preserving => WhereOriginal

-----------------------------------------------------------------------------
(* What the app's own texts say of a run; TLC refutes each of them.          *)

(* strings.xml, bkup_rom_desc: "Keeps original ROM file as ROMname.bak after *)
(* patching" - after a success with "Backup ROM" and without the rename.     *)
BackupKept == outcome = "success" /\ opt.c /\ ~opt.d /\ ~IsEcm => fs[Bak] = Before

(* strings.xml, rename_desc: "Renames ROM after patching to filename typed   *)
(* below" - after a run that produced an output, it has the typed name.      *)
RenamedToTyped ==
    /\ outcome = "success" /\ made # 0 /\ Renames
    /\ In(opt.typed) \notin {Dir, Rom, Bak}
    => fs[In(opt.typed)] = made

(* strings.xml, warning_desc: "A backup, output, or required temporary file  *)
(* already exists. Overwrite?" - accepting it does not remove the ROM.       *)
DialogSparesRom == asked /\ pc = "begin" => fs[Rom] = Before

(* strings.xml, ignoreChks_desc: "If a checksum, CRC32, or validation error  *)
(* appears, try checking this box" - after an error the unpatched ROM still  *)
(* exists to try again with.                                                 *)
ErrorAllowsRetry == outcome = "error" => \E p \in Paths : fs[p] = Before
=============================================================================
