--------------------------- MODULE MC_MachOParser ---------------------------
(* Inputs for MachOParser: every header of at most two load commands drawn *)
(* from the command kinds the walk distinguishes, each one or two words    *)
(* long; crash-info strings of MaxLen + 2 bytes with every readable prefix; *)
(* sections over four representative strings.                             *)
EXTENDS MachOParser

CONSTANTS nullStr

MCMaxLen == 3

\* current_version values at the bit-field boundaries, and 1.2.3.  TLC's
\* integers stop at 2^31 - 1, so bit 31 of the uint32 is not exercised.
MCVersions == {0, 255, 256, 65535, 65536, 66051, 2147483647}

BaseCmd == [cmd |-> "LC_OTHER", segname |-> "", vmaddr |-> 0, vmsize |-> 0,
            uuid |-> 0, version |-> 0, cmdsize |-> 1]

OneWordCmds ==
    {[BaseCmd EXCEPT !.cmd = k, !.segname = n, !.vmaddr = a, !.vmsize = 4096 * a] :
        k \in {"LC_SEGMENT", "LC_SEGMENT_64"}, n \in {"__TEXT", "__DATA"}, a \in {1, 2}}
    \cup {[BaseCmd EXCEPT !.cmd = "LC_UUID", !.uuid = u] : u \in {1, 2}}
    \cup {[BaseCmd EXCEPT !.cmd = "LC_ID_DYLIB", !.version = v] : v \in MCVersions}
    \cup {BaseCmd}

MCCmds == {[c EXCEPT !.cmdsize = z] : c \in OneWordCmds, z \in {1, 2}}

CmdLists == {<<>>} \cup {<<c>> : c \in MCCmds} \cup {<<c, d>> : c, d \in MCCmds}

MCStrings ==
    {nullStr} \cup [bytes : [1..(MCMaxLen + 2) -> {0, 1}], readable : 0..(MCMaxLen + 2)]

\* NUL at index 1; NUL only at index MaxLen + 1 (too long); NUL at index 2
\* but only 2 bytes readable.
Good       == [bytes |-> <<1, 0, 1, 1, 1>>, readable |-> 5]
TooLong    == [bytes |-> <<1, 1, 1, 1, 0>>, readable |-> 5]
Unreadable == [bytes |-> <<1, 1, 0, 1, 1>>, readable |-> 2]
SectionStrings == {nullStr, Good, TooLong, Unreadable}

MCSections ==
    [present : BOOLEAN, size : {32, 40}, readable : BOOLEAN, version : {3, 4, 5},
     message : SectionStrings, message2 : SectionStrings,
     backtrace : SectionStrings, signature : SectionStrings]

\* Headers carry a usable section, so the descriptor's crash info is checked.
ImageSection ==
    [present |-> TRUE, size |-> 40, readable |-> TRUE, version |-> 5,
     message |-> Good, message2 |-> nullStr, backtrace |-> TooLong,
     signature |-> Unreadable]

MCHeaders ==
    [magic : {"MH_MAGIC", "MH_MAGIC_64", "MH_CIGAM_64", "corrupt"},
     named : BOOLEAN, cmds : CmdLists, section : {ImageSection}]
====
