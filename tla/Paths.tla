------------------------------- MODULE Paths -------------------------------
(***************************************************************************)
(* Paths and the working directory: __resolve_path and __realpath of        *)
(* internal/vitafs.c, chdir and getcwd of unistd/.  A path is an optional   *)
(* drive, an optional slash after it and the tokens between the slashes     *)
(* that follow; characters only count where a length is compared.           *)
(***************************************************************************)
EXTENDS Naturals, Sequences, FiniteSets, LibcThreads

CONSTANTS
    Drives,      \* drive prefixes, with the colon
    DirNames,
    Length,      \* the characters of a drive or of a name
    DefaultDrive,\* "app0:"
    PATH_MAX,
    MaxTokens    \* bound on the tokens of a path

ASSUME PathAssumption ==
    /\ DefaultDrive \in Drives /\ NULL \notin Drives
    /\ DirNames \cap {"", ".", ".."} = {}
    /\ Length \in [Drives \cup DirNames -> Nat \ {0}]
    /\ PATH_MAX \in Nat /\ MaxTokens \in Nat

VARIABLES
    cwd,         \* __cwd, NULL if empty
    resolved     \* __realpath's answer until it is freed: path, working directory,
                 \* result, and was the stack smashed on the way (ghost)

pathVars == <<cwd, resolved>>

Tokens == DirNames \cup {"", ".", ".."}

TokenSeqs == UNION {[1 .. n -> Tokens] : n \in 0 .. MaxTokens}

(* Each text is one path: a text that starts with a slash has slash set,    *)
(* and an empty text has no token.                                          *)
Path == {p \in [drive : Drives \cup {NULL}, slash : BOOLEAN, tokens : TokenSeqs] :
             /\ p.tokens # <<"">>
             /\ ~p.slash /\ p.tokens # <<>> => Head(p.tokens) # ""}

EmptyPath == [drive |-> NULL, slash |-> FALSE, tokens |-> <<>>]

(* A path as __realpath returns it.                                         *)
FullPath == [drive : Drives, slash : BOOLEAN, names : Seq(DirNames)]

ASSUME NullIsNoPath == NULL \notin FullPath

PathInit == cwd = NULL /\ resolved = NULL

PathTypeOK ==
    /\ cwd \in FullPath \cup {NULL}
    /\ resolved # NULL =>
          /\ resolved.path \in Path /\ resolved.cwd \in FullPath
          /\ resolved.result \in FullPath \cup {NULL}
          /\ resolved.smashed \in BOOLEAN

-----------------------------------------------------------------------------
Chars(tok) == IF tok = ".." THEN 2 ELSE IF tok = "." THEN 1 ELSE IF tok = "" THEN 0 ELSE Length[tok]

(* strlen of tokens with slashes between them.                              *)
TextLen(tokens) ==
    LET len[i \in 0 .. Len(tokens)] ==
            IF i = 0 THEN 0 ELSE len[i - 1] + Chars(tokens[i]) + IF i = 1 THEN 0 ELSE 1
    IN  len[Len(tokens)]

Bit(b) == IF b THEN 1 ELSE 0

(* The buffer resolved: a leading slash, names, and a slash after them.     *)
(* Once long is set the loop has been left with ENAMETOOLONG, and the       *)
(* buffer is full; wild means a write through strrchr's NULL.               *)
BufLen(r) == IF r.long THEN PATH_MAX - 1 ELSE Bit(r.slash) + TextLen(r.names) + Bit(r.tail)

StartBuf(slash) ==
    [slash |-> slash, names |-> <<>>, tail |-> FALSE, long |-> FALSE, wild |-> FALSE]

(* The slash before the next token.  Of an empty buffer the code looks at   *)
(* the byte before it; before says whether that is a slash.                 *)
Slashed(r, before) ==
    CASE BufLen(r) = 0 -> [r EXCEPT !.slash = ~before]
      [] BufLen(r) > 0 /\ (r.tail \/ r.names = <<>>) -> r
      [] OTHER -> IF BufLen(r) + 1 >= PATH_MAX THEN [r EXCEPT !.long = TRUE]
                                               ELSE [r EXCEPT !.tail = TRUE]

(* Mutant: a path of one name is taken for the root.                        *)
StrippedNotLast(r) ==
    LET up == SubSeq(r.names, 1, Len(r.names) - 1) IN
    IF Len(r.names) <= 1 THEN r ELSE [r EXCEPT !.names = up, !.tail = up # <<>>]

(* "..": everything after the last slash but one goes.                      *)
Stripped(r) ==
    LET up == SubSeq(r.names, 1, Len(r.names) - 1) IN
    IF r.names = <<>> THEN r
    ELSE [r EXCEPT !.names = up, !.tail = up # <<>>, !.wild = ~r.slash /\ up = <<>>]

Appended(r, name) ==
    LET a == [r EXCEPT !.names = Append(@, name), !.tail = FALSE] IN
    IF BufLen(a) >= PATH_MAX THEN [r EXCEPT !.long = TRUE] ELSE a

Taken(r, tok, before) ==
    LET s == Slashed(r, before) IN
    CASE s.long \/ tok \in {"", "."} -> s
      [] ~s.long /\ tok = ".." -> Stripped(s)
      [] OTHER -> Appended(s, tok)

(* __resolve_path.  Its NULL is ignored by __realpath, which goes on with   *)
(* what is in the buffer: the start of it for a path that does not even fit *)
(* into left.                                                               *)
resolve_path(slash, tokens, before) ==
    LET buf[i \in 0 .. Len(tokens)] ==
            IF i = 0 THEN StartBuf(slash)
            ELSE LET r == buf[i - 1]
                 IN  IF r.long \/ r.wild THEN r ELSE Taken(r, tokens[i], before)
    IN  IF TextLen(tokens) >= PATH_MAX THEN StartBuf(slash) ELSE buf[Len(tokens)]

(* strlen of the buffer, without the trailing slash.                        *)
EndLen(r) == IF r.long THEN PATH_MAX - 1 ELSE Bit(r.slash) + TextLen(r.names)

(* The drive and the buffer after it.                                       *)
OnDrive(drive, r) ==
    IF ~r.wild /\ EndLen(r) + Length[drive] < PATH_MAX
    THEN [drive |-> drive, slash |-> r.slash, names |-> r.names]
    ELSE NULL

init_cwd == IF cwd = NULL THEN [drive |-> DefaultDrive, slash |-> FALSE, names |-> <<>>] ELSE cwd

FullLen(f) == Length[f.drive] + Bit(f.slash) + TextLen(f.names)

(* strcat of "/" and the path to the working directory c.                   *)
Joined(c, tokens) == IF c.names = <<>> /\ c.slash THEN <<"">> \o tokens ELSE c.names \o tokens

Relative(p) == p.drive = NULL /\ ~p.slash

(* full_path takes the working directory, a slash, the path and a NUL; the  *)
(* test before it leaves room for one of the last two only.  At this length *)
(* the NUL goes to the byte after full_path.                                *)
Overruns(p, c) ==
    /\ Relative(p) /\ p # EmptyPath
    /\ FullLen(c) + TextLen(p.tokens) + 1 = PATH_MAX

(* The answer; of a path that overruns full_path, the answer if the byte    *)
(* after it was not in use, or zero.                                        *)
realpath(p, c, before) ==
    CASE p = EmptyPath -> NULL
      [] p.drive # NULL -> OnDrive(p.drive, resolve_path(p.slash, p.tokens, before))
      [] p.drive = NULL /\ p.slash -> OnDrive(c.drive, resolve_path(TRUE, p.tokens, before))
      [] OTHER -> IF FullLen(c) + TextLen(p.tokens) < PATH_MAX
                  THEN OnDrive(c.drive, resolve_path(c.slash \/ c.names = <<>>,
                                                     Joined(c, p.tokens), before))
                  ELSE NULL

-----------------------------------------------------------------------------
(* __realpath, for any of its callers: it sets __cwd if it needs it.  (If   *)
(* calloc fails it changes nothing.)                                        *)
Realpath(p, before) ==
    /\ resolved' = [path |-> p, cwd |-> init_cwd, smashed |-> FALSE,
                    result |-> realpath(p, init_cwd, before)]
    /\ cwd' = IF p = EmptyPath \/ p.drive # NULL THEN cwd ELSE init_cwd

(* chdir to a path that FIOS says is a directory.                           *)
chdir(p, before) ==
    /\ realpath(p, init_cwd, before) # NULL
    /\ cwd' = realpath(p, init_cwd, before)
    /\ UNCHANGED resolved

(* __realpath, called by chdir or any other function, overwrites a byte     *)
(* that was in use: of a local variable, a saved register, the return       *)
(* address.  There is no answer to speak of, and no step after it.          *)
SmashStack(p) ==
    /\ Overruns(p, init_cwd)
    /\ resolved' = [path |-> p, cwd |-> init_cwd, smashed |-> TRUE, result |-> NULL]
    /\ cwd' = init_cwd

Smashed == resolved # NULL /\ resolved.smashed

(* The caller is done with the path.                                        *)
FreePath ==
    /\ resolved # NULL
    /\ resolved' = NULL
    /\ UNCHANGED cwd

(* getcwd only sets __cwd.                                                  *)
getcwd ==
    /\ cwd' = init_cwd
    /\ UNCHANGED resolved

PathNext ==
    \/ /\ resolved = NULL
       /\ \E p \in Path :
             \/ \E before \in BOOLEAN : Realpath(p, before) \/ chdir(p, before)
             \/ SmashStack(p)
    \/ ~Smashed /\ (getcwd \/ FreePath)
    \/ Smashed /\ UNCHANGED pathVars

PathSpec == PathInit /\ [][PathNext]_pathVars

-----------------------------------------------------------------------------
(* A name survives if no later ".." takes it back: none such that there are *)
(* more ".." than names after it, up to that point.                         *)
Survives(tokens, i) ==
    LET Count(S, j) == Cardinality({k \in i + 1 .. j : tokens[k] \in S})
    IN  /\ tokens[i] \in DirNames
        /\ \A j \in i + 1 .. Len(tokens) : Count({".."}, j) <= Count(DirNames, j)

Survivors(tokens) == {i \in 1 .. Len(tokens) : Survives(tokens, i)}

(* What a path means: the drive it is on and the tokens from its root.      *)
OwnDrive(p, c) == IF p.drive = NULL THEN c.drive ELSE p.drive
FromRoot(p, c) == IF Relative(p) THEN c.names \o p.tokens ELSE p.tokens

(* drive:name is not a path this code has a meaning for: what it gives      *)
(* depends on the byte before a buffer.  A working directory may be one.    *)
Rooted(p, c) ==
    /\ p.drive # NULL /\ p.tokens # <<>> => p.slash
    /\ Relative(p) /\ c.names # <<>> => c.slash

(* The length of the drive, a slash and the whole text.                     *)
WholeLen(p, c) == Length[OwnDrive(p, c)] + 1 + TextLen(FromRoot(p, c))

(* A path that __realpath returns is the one the caller meant: on its drive *)
(* (that of the working directory if it names none), from the root, with    *)
(* exactly the names that no later ".." takes back, in order, and never cut *)
(* short to fit.  Conceded: an absolute path that does not fit into the     *)
(* buffer left, which becomes the root of its drive since __realpath        *)
(* ignores the NULL of __resolve_path (internal/vitafs.c 183, 196), and a   *)
(* relative path whose NUL falls behind full_path on a byte in use (the     *)
(* test of 211 is off by one).  And it refuses no path that fits: if the    *)
(* drive, the working directory where it counts and the path are together   *)
(* shorter than PATH_MAX, and the path is not empty, it returns a path.     *)
ResolvedExact ==
    (resolved # NULL /\ ~resolved.smashed /\ Rooted(resolved.path, resolved.cwd)) =>
        LET p == resolved.path
            c == resolved.cwd
            result == resolved.result
            tokens == FromRoot(p, c)
            S == Survivors(tokens)
        IN  /\ result # NULL /\ TextLen(tokens) < PATH_MAX =>
                /\ result.drive = OwnDrive(p, c)
                /\ result.slash \/ (p.drive # NULL /\ p.tokens = <<>> /\ ~p.slash)
                /\ Len(result.names) = Cardinality(S)
                /\ \A i \in S : result.names[Cardinality(S \cap 1 .. i)] = tokens[i]
            /\ p # EmptyPath /\ WholeLen(p, c) < PATH_MAX => result # NULL

=============================================================================
