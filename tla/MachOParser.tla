---------------------------- MODULE MachOParser ----------------------------
(***************************************************************************)
(* The Mach-O parsing functions of KSDynamicLinker.c, which are pure: they  *)
(* read the image's header memory and have no shared state.                *)
(*                                                                         *)
(*   ksdl_first_cmd_after_header   magic check, address of the first cmd   *)
(*   compute_slide                 first __TEXT segment's vmaddr -> slide  *)
(*   ksdl_getBinaryImageForHeader  the load-command walk and the version   *)
(*                                 split, then getCrashInfo                *)
(*   getCrashInfo                  the __DATA,__crash_info section checks  *)
(*   isValidCrashInfoMessage       bounded NUL-terminated string check     *)
(*                                                                         *)
(* Memory is a sequence of 4-byte words ("slots").  The header takes 7      *)
(* slots (mach_header) or 8 (mach_header_64); each load command takes       *)
(* cmdsize slots, the first holding the command and the rest its payload.   *)
(* A command's payload is junk that would look like a __TEXT segment if it  *)
(* were read as a command, so a walk that misses a cmdsize is visible.     *)
(*                                                                         *)
(* A harness calls one function per step on an input from a small set and  *)
(* records its result; the invariants compare each result with a reference *)
(* definition written from the spec (spec.md, Binary Descriptor Parser).   *)
(***************************************************************************)
EXTENDS Integers, Sequences, SequencesExt, Bitwise

CONSTANTS
    HeaderAddr,   \* the address of the mach header being parsed
    Headers,      \* the headers a caller may pass (records, see HeaderType)
    Sections,     \* crash-info sections getCrashInfo may find
    Strings,      \* crash-info string pointers isValidCrashInfoMessage may get
    MaxLen,       \* KSDL_MaxCrashInfoStringLength (4096 in the build)
    NullStr       \* a NULL string pointer

Magic32 == {"MH_MAGIC", "MH_CIGAM"}
Magic64 == {"MH_MAGIC_64", "MH_CIGAM_64"}
CmdKinds == {"LC_SEGMENT", "LC_SEGMENT_64", "LC_UUID", "LC_ID_DYLIB", "LC_OTHER"}
CrashFields == {"message", "message2", "backtrace", "signature"}

\* offsetof(crash_info_t, reserved) under #pragma pack(8), 64-bit pointers.
MinimalSize == 40

\* The words of the mach header itself, and the payload of a multi-slot
\* command: what the walk would find if it read them as commands.
HdrWord == [cmd |-> "header", segname |-> "", vmaddr |-> 0, vmsize |-> 0,
            uuid |-> 0, version |-> 0, cmdsize |-> 1]
Payload == [cmd |-> "LC_SEGMENT_64", segname |-> "__TEXT", vmaddr |-> 99,
            vmsize |-> 99, uuid |-> 0, version |-> 0, cmdsize |-> 1]

HeaderWords(magic) == IF magic \in Magic64 THEN 8 ELSE 7

\* The image's memory: header words, then each command and its payload.
Memory(h) ==
    [i \in 1..HeaderWords(h.magic) |-> HdrWord]
      \o FlattenSeq([i \in 1..Len(h.cmds) |->
                       <<h.cmds[i]>> \o [j \in 1..(h.cmds[i].cmdsize - 1) |-> Payload]])

VARIABLES fn, arg, res
vars == <<fn, arg, res>>

-----------------------------------------------------------------------------
(* The code.                                                               *)

\* ksdl_first_cmd_after_header: the slot after the header, or 0 (NULL) when
\* the magic is neither a 32- nor a 64-bit one (corrupt header).
ksdl_first_cmd_after_header(magic) ==
    IF magic \in Magic32 \cup Magic64 THEN 1 + HeaderWords(magic) ELSE 0

\* A mutant of NextCmd: advance by one word, ignoring cmdsize.
NextCmdFixed(ptr, c) == ptr + 1

\* cmdPtr += loadCmd->cmdsize
NextCmd(ptr, c) == ptr + c.cmdsize

\* A mutant of SlideSegment: only the 64-bit segment command is recognised.
SlideSegment64Only(c) == c.cmd = "LC_SEGMENT_64" /\ c.segname = "__TEXT"

\* compute_slide's switch: a non-__TEXT LC_SEGMENT falls through into the
\* LC_SEGMENT_64 case, whose segname is at the same offset, so either kind
\* with segname __TEXT returns.
SlideSegment(c) ==
    c.cmd \in {"LC_SEGMENT", "LC_SEGMENT_64"} /\ c.segname = "__TEXT"

RECURSIVE SlideWalk(_, _, _)
SlideWalk(mem, ptr, n) ==
    IF n = 0 THEN 0
    ELSE IF SlideSegment(mem[ptr]) THEN HeaderAddr - mem[ptr].vmaddr
    ELSE SlideWalk(mem, NextCmd(ptr, mem[ptr]), n - 1)

compute_slide(h) ==
    LET cmdPtr == ksdl_first_cmd_after_header(h.magic)
    IN  IF cmdPtr = 0 THEN 0 ELSE SlideWalk(Memory(h), cmdPtr, Len(h.cmds))

\* One iteration of the walk in ksdl_getBinaryImageForHeader: the switch on
\* loadCmd->cmd, each case ending in break.
ApplyCmd(acc, c) ==
    CASE c.cmd \in {"LC_SEGMENT", "LC_SEGMENT_64"} /\ c.segname = "__TEXT" ->
             [acc EXCEPT !.size = c.vmsize, !.vmAddress = c.vmaddr]
      [] c.cmd = "LC_UUID"     -> [acc EXCEPT !.uuid = c.uuid]
      [] c.cmd = "LC_ID_DYLIB" -> [acc EXCEPT !.version = c.version]
      [] OTHER                 -> acc

RECURSIVE WalkCmds(_, _, _, _)
WalkCmds(mem, ptr, n, acc) ==
    IF n = 0 THEN acc
    ELSE WalkCmds(mem, NextCmd(ptr, mem[ptr]), n - 1, ApplyCmd(acc, mem[ptr]))

\* A mutant of VersionSplit: the minor field is not masked with 0xff.
VersionSplitUnmasked(v) ==
    [major |-> shiftR(v, 16), minor |-> shiftR(v, 8), revision |-> v & 255]

\* buffer->majorVersion/minorVersion/revisionVersion from current_version.
VersionSplit(v) ==
    [major |-> shiftR(v, 16), minor |-> shiftR(v, 8) & 255, revision |-> v & 255]

\* ksmem_maxReadableBytes(str, n): how many of the first n bytes are readable.
MaxReadable(s, n) == IF s.readable < n THEN s.readable ELSE n

\* A mutant of isValidCrashInfoMessage: reads only MaxLen bytes.
isValidCrashInfoMessageShort(s) ==
    /\ s /= NullStr
    /\ \E i \in 0..(MaxReadable(s, MaxLen) - 1) : s.bytes[i + 1] = 0

isValidCrashInfoMessage(s) ==
    /\ s /= NullStr
    /\ LET maxReadableBytes == MaxReadable(s, MaxLen + 1)
       IN  /\ maxReadableBytes /= 0
           /\ \E i \in 0..(maxReadableBytes - 1) : s.bytes[i + 1] = 0

NoCrashInfo == [f \in CrashFields |-> NullStr]

\* getCrashInfo: the early returns in order, then each string kept if valid.
\* versionOK is the check crashInfo->version is 4 or 5.
getCrashInfoWith(sec, versionOK) ==
    IF \/ ~sec.present
       \/ sec.size < MinimalSize
       \/ ~sec.readable
       \/ ~versionOK
       \/ sec.message = NullStr /\ sec.message2 = NullStr
    THEN NoCrashInfo
    ELSE [f \in CrashFields |->
            IF isValidCrashInfoMessage(sec[f]) THEN sec[f] ELSE NullStr]

\* A mutant of getCrashInfo: the section's version is not checked.
getCrashInfoAnyVersion(sec) == getCrashInfoWith(sec, TRUE)

getCrashInfo(sec) == getCrashInfoWith(sec, sec.version \in {4, 5})

NoImage == [ok |-> FALSE]

ksdl_getBinaryImageForHeader(h) ==
    LET cmdPtr == ksdl_first_cmd_after_header(h.magic)
        found  == WalkCmds(Memory(h), cmdPtr, Len(h.cmds),
                           [size |-> 0, vmAddress |-> 0, version |-> 0, uuid |-> 0])
    IN  IF cmdPtr = 0 \/ ~h.named THEN NoImage
        ELSE [ok |-> TRUE, vmAddress |-> found.vmAddress, size |-> found.size,
              uuid |-> found.uuid, version |-> VersionSplit(found.version),
              crashInfo |-> getCrashInfo(h.section)]

-----------------------------------------------------------------------------
(* The harness: from idle, one call of a parser function records its      *)
(* argument and result; the caller then returns to idle.                  *)

Init == fn = "none" /\ arg = "none" /\ res = "none"

Call(f, x, r) == fn = "none" /\ fn' = f /\ arg' = x /\ res' = r

Return == fn /= "none" /\ fn' = "none" /\ arg' = "none" /\ res' = "none"

CallGetBinaryImage ==
    \E h \in Headers : Call("image", h, ksdl_getBinaryImageForHeader(h))

CallComputeSlide == \E h \in Headers : Call("slide", h, compute_slide(h))

CallIsValidCrashInfoMessage ==
    \E s \in Strings : Call("valid", s, isValidCrashInfoMessage(s))

CallGetCrashInfo == \E sec \in Sections : Call("crash", sec, getCrashInfo(sec))

Next ==
    \/ CallGetBinaryImage
    \/ CallComputeSlide
    \/ CallIsValidCrashInfoMessage
    \/ CallGetCrashInfo
    \/ Return

Spec == Init /\ [][Next]_vars

-----------------------------------------------------------------------------
(* Reference definitions, from spec.md's Binary Descriptor Parser.         *)

IsTextSegment(c) == c.cmd \in {"LC_SEGMENT", "LC_SEGMENT_64"} /\ c.segname = "__TEXT"
IsUUID(c) == c.cmd = "LC_UUID"
IsDylibId(c) == c.cmd = "LC_ID_DYLIB"

\* The field of the last of the image's commands satisfying P, or 0.
LastField(cmds, P(_), field) ==
    LET i == SelectLastInSeq(cmds, P) IN IF i = 0 THEN 0 ELSE cmds[i][field]

\* Bits hi..lo of v.
Bits(v, hi, lo) == (v \div 2^lo) % 2^(hi - lo + 1)

\* Index (from 0) of the string's first NUL byte, or -1 if it has none.
FirstNul(s) == SelectInSeq(s.bytes, LAMBDA b : b = 0) - 1

\* A string the crash report can print: non-null, at most MaxLen characters,
\* and readable up to and including its NUL.
PrintableString(s) ==
    s /= NullStr /\ FirstNul(s) \in 0..MaxLen /\ FirstNul(s) < s.readable

\* The section is present, covers version and the four string pointers, is
\* readable, has a supported version and one of the two messages is set.
UsableSection(sec) ==
    /\ sec.present /\ sec.size >= MinimalSize /\ sec.readable
    /\ sec.version \in {4, 5}
    /\ (sec.message /= NullStr \/ sec.message2 /= NullStr)

RefCrashInfo(sec) ==
    [f \in CrashFields |->
        IF UsableSection(sec) /\ PrintableString(sec[f]) THEN sec[f] ELSE NullStr]

RefImage(h) ==
    LET v == LastField(h.cmds, IsDylibId, "version")
    IN  IF h.magic \notin Magic32 \cup Magic64 \/ ~h.named THEN NoImage
        ELSE [ok |-> TRUE,
              vmAddress |-> LastField(h.cmds, IsTextSegment, "vmaddr"),
              size |-> LastField(h.cmds, IsTextSegment, "vmsize"),
              uuid |-> LastField(h.cmds, IsUUID, "uuid"),
              version |-> [major |-> Bits(v, 31, 16), minor |-> Bits(v, 15, 8),
                           revision |-> Bits(v, 7, 0)],
              crashInfo |-> RefCrashInfo(h.section)]

RefSlide(h) ==
    LET i == SelectInSeq(h.cmds, IsTextSegment)
    IN  IF h.magic \notin Magic32 \cup Magic64 \/ i = 0 THEN 0
        ELSE HeaderAddr - h.cmds[i].vmaddr

-----------------------------------------------------------------------------
(* Properties.                                                             *)

\* Type invariant.  The version split of ksdl_getBinaryImageForHeader yields
\* fields of the declared bit widths: 16 bits major, 8 minor, 8 revision.
TypeOK ==
    /\ fn \in {"none", "image", "slide", "valid", "crash"}
    /\ (fn = "image" /\ res.ok) =>
          res.version \in [major : 0..65535, minor : 0..255, revision : 0..255]
    /\ fn = "valid" => res \in BOOLEAN

\* ksdl_getBinaryImageForHeader walks exactly the image's ncmds commands,
\* honouring each cmdsize: the descriptor has the vmaddr and vmsize of the
\* last __TEXT segment, the last UUID, the dylib version split at bits
\* 31-16/15-8/7-0 and the crash info the spec accepts; it fails exactly for
\* a corrupt magic or an image get_path cannot name.
DescriptorMatchesCommands == fn = "image" => res = RefImage(arg)

\* compute_slide, despite the LC_SEGMENT case falling through into the
\* LC_SEGMENT_64 case, returns header minus the vmaddr of the first __TEXT
\* segment of either kind, and 0 when there is none or the magic is corrupt.
SlideFromFirstTextSegment == fn = "slide" => res = RefSlide(arg)

\* isValidCrashInfoMessage, reading at most KSDL_MaxCrashInfoStringLength + 1
\* bytes as reported readable by ksmem_maxReadableBytes, accepts exactly the
\* strings of at most MaxLen characters that are readable through their NUL.
CrashMessageAccepted == fn = "valid" => res = PrintableString(arg)

\* getCrashInfo attaches a string exactly when the section passed all of its
\* checks (size, readability, version 4 or 5, a primary message set) and the
\* string itself is printable; anything else leaves the field NULL.
CrashInfoFields == fn = "crash" => res = RefCrashInfo(arg)

\* spec.md: each crash-info string must be "NUL-terminated within a fixed
\* maximum of 4096 bytes".  isValidCrashInfoMessage accepts a string whose
\* NUL is the (MaxLen + 1)-th byte.
CrashMessageWithinMaxBytes ==
    fn = "valid" /\ res = TRUE => FirstNul(arg) < MaxLen

====
