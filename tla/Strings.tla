------------------------------- MODULE Strings -------------------------------
(***************************************************************************)
(* Programs on the strings of their command line: tokenize, myprintenv and *)
(* mywhich of src/assign2 over its util.c, token.c of src/lab2 and         *)
(* pig_latin.c of src/lab3.                                                *)
(*                                                                         *)
(* A string is the sequence of its characters.  A behaviour is that of one *)
(* program, from its start (...Main); a step is a call of its scanner, or   *)
(* the handling of one word.                                               *)
(***************************************************************************)
EXTENDS Integers, FiniteSets, FiniteSetsExt, SequencesExt

CONSTANTS
    NULL, NUL,          \* the null pointer, the null character
    Space, Dash, Colon, Eq,     \* " ", "-", ":" and "="
    Char,               \* the characters of strings
    Junk,               \* the one found in memory that nobody has written
    Vowel, Consonant,   \* the letters of pig latin
    Texts, Delimiters, Lengths,     \* what tokenize is called with
    SUB,                \* FIXED_TEST_SYLLABLE_SIZE
    Envs, Keys,         \* environments, and lists of names to look up
    PATH, MYPATH,       \* these two names
    Names, Executable,  \* lists of commands; the <<directory, command>> there are
    Buffers,            \* strings that musl_strtok is given
    Sentences           \* lists of words to be put in pig latin

\* The buffers are those scan_token is written for (readme.txt:32 of assign2).
ASSUME StringsAssumption ==
    /\ NULL \notin Seq(Char) \cup Nat /\ NUL \notin Char /\ {Junk, "w", "a", "y"} \subseteq Char
    /\ Vowel \cap Consonant = {}
    /\ Texts \subseteq Seq(Char) /\ Delimiters \subseteq SUBSET Char
    /\ Lengths \subseteq Nat /\ \A buflen \in Lengths : buflen >= 2
    /\ SUB \in Nat /\ SUB >= 2
    /\ Envs \cup Keys \cup Buffers \cup Sentences \subseteq Seq(Seq(Char))
    /\ {PATH, MYPATH} \subseteq Seq(Char)
    /\ \A names \in Names : names \in Seq(Range(names))

VARIABLES
    pc,     \* the program's location; "done", "refused" or "crashed" in the end
    arg,    \* the command line and the environment
    loc,    \* the program's locals
    out     \* what it has printed, or what the calls have returned

vars == <<pc, arg, loc, out>>

NoRecord == [none |-> NULL]

\* A program has been started, with arguments a, and is at p.
Starts(p, a, l) == pc = p /\ arg = a /\ loc = l /\ out = <<>>

-----------------------------------------------------------------------------
(* <string.h>.                                                             *)

strcspn(s, d) == Min({i \in 0 .. Len(s) : i = Len(s) \/ s[i + 1] \in d})
strspn(s, d)  == Min({i \in 0 .. Len(s) : i = Len(s) \/ s[i + 1] \notin d})

First(s, k)  == SubSeq(s, 1, k)
From(s, k)   == SubSeq(s, k + 1, Len(s))    \* the string at s + k

\* The string in an array, which need not be terminated inside it.
Str(b) == [i \in 1 .. Min({i \in DOMAIN b : b[i] = NUL}) |-> b[i - 1]]

-----------------------------------------------------------------------------
(* scan_token.  A buffer is shown with the byte behind it.  Variants named  *)
(* ..._bug are what a plausible mistake would make of the definition after  *)
(* them; nothing here uses them.                                            *)

Buffer(buflen) == [i \in 0 .. buflen |-> Junk]

\* A token cut off leaves a character behind.
scan_token_bug(input, d, buf, buflen) ==
    LET s == From(input, strspn(input, d))
        k == strcspn(s, d)
    IN  CASE s = <<>> -> [ok |-> FALSE, rest |-> s, buf |-> buf, taken |-> <<>>]
          [] s # <<>> /\ k < buflen ->
               [ok |-> TRUE, rest |-> From(s, k), taken |-> First(s, k),
                buf |-> [i \in DOMAIN buf |-> IF i < k THEN s[i + 1] ELSE IF i = k THEN NUL ELSE buf[i]]]
          [] OTHER ->
               [ok |-> TRUE, rest |-> From(s, buflen), taken |-> First(s, buflen - 1),
                buf |-> [i \in DOMAIN buf |-> IF i < buflen - 1 THEN s[i + 1]
                                              ELSE IF i = buflen THEN NUL ELSE buf[i]]]

\* The result, *p_input and the buffer after the call, and what was copied.  A
\* token that does not fit is terminated behind the buffer, not in it.
scan_token(input, d, buf, buflen) ==
    LET s == From(input, strspn(input, d))
        k == strcspn(s, d)
    IN  CASE s = <<>> -> [ok |-> FALSE, rest |-> s, buf |-> buf, taken |-> <<>>]
          [] s # <<>> /\ k < buflen ->
               [ok |-> TRUE, rest |-> From(s, k), taken |-> First(s, k),
                buf |-> [i \in DOMAIN buf |-> IF i < k THEN s[i + 1] ELSE IF i = k THEN NUL ELSE buf[i]]]
          [] OTHER ->
               [ok |-> TRUE, rest |-> From(s, buflen - 1), taken |-> First(s, buflen - 1),
                buf |-> [i \in DOMAIN buf |-> IF i < buflen - 1 THEN s[i + 1]
                                              ELSE IF i = buflen THEN NUL ELSE buf[i]]]

\* tokenize with delimiters, a text and a size for the buffer.
TokenizeMain ==
    \E s \in Texts, d \in Delimiters, buflen \in Lengths :
        Starts("tokenize", [input |-> s, delimiters |-> d, buflen |-> buflen],
               [remaining |-> s, buf |-> Buffer(buflen)])

Tokenize ==
    pc = "tokenize" /\ \E r \in {scan_token(loc.remaining, arg.delimiters, loc.buf, arg.buflen)} :
        /\ loc' = [remaining |-> r.rest, buf |-> r.buf]
        /\ IF r.ok THEN out' = Append(out, [text |-> Str(r.buf), taken |-> r.taken]) /\ UNCHANGED pc
                   ELSE pc' = "done" /\ UNCHANGED out
        /\ UNCHANGED arg

\* tokenize without arguments: words at blanks, syllables and letters at dashes.
FixedTest ==
    \E s \in Texts :
        Starts("words", [input |-> s], [input |-> s])

NextWord ==
    pc = "words" /\ \E r \in {scan_token(loc.input, {Space}, Buffer(Len(arg.input) + 1), Len(arg.input) + 1)} :
        /\ IF r.ok THEN /\ loc' = [input |-> r.rest, word |-> Str(r.buf), next |-> Str(r.buf),
                                   sub |-> Buffer(SUB), nsyllables |-> 0, nletters |-> 0]
                        /\ pc' = "syllables"
                   ELSE pc' = "done" /\ UNCHANGED loc
        /\ UNCHANGED <<arg, out>>

NextSyllable ==
    pc = "syllables" /\ \E r \in {scan_token(loc.next, {Dash}, loc.sub, SUB)} :
        /\ loc' = [loc EXCEPT !.sub = r.buf,
                              !.next = IF r.ok THEN r.rest ELSE loc.word,
                              !.nsyllables = IF r.ok THEN @ + 1 ELSE @]
        /\ pc' = IF r.ok THEN "syllables" ELSE "letters"
        /\ UNCHANGED <<arg, out>>

\* The buffer is larger than the length 2 that scan_token is told.
NextLetter ==
    pc = "letters" /\ \E r \in {scan_token(loc.next, {Dash}, loc.sub, 2)} :
        /\ IF r.ok
           THEN /\ loc' = [loc EXCEPT !.sub = r.buf, !.next = r.rest, !.nletters = @ + 1]
                /\ UNCHANGED <<pc, out>>
           ELSE /\ out' = Append(out, <<loc.nsyllables, loc.nletters>>)
                /\ pc' = "words" /\ UNCHANGED loc
        /\ UNCHANGED arg

-----------------------------------------------------------------------------
(* get_env_value, myprintenv and mywhich.                                   *)

\* strstr: where in s k begins.
Occurs(s, k) == {i \in 0 .. (Len(s) - Len(k)) : SubSeq(s, i + 1, i + Len(k)) = k}

\* Any entry with the name in it will do.
Found_bug(e, key) == Occurs(e, key) # {}

\* The test of an entry.
Found(e, key) == /\ Occurs(e, key) # {}
                 /\ Len(key) < Len(e) /\ e[Len(key) + 1] = Eq

\* The values it may return: what follows the first place that has the key and
\* one character more, be that behind the end of the entry.
get_env_value(envp, key) ==
    LET found == {i \in DOMAIN envp : Found(envp[i], key)}
        e     == envp[Min(found)]
        at    == Min(Occurs(e, key)) + Len(key) + 1
    IN  CASE found = {}                   -> {NULL}
          [] found # {} /\ at <= Len(e)   -> {From(e, at)}
          [] OTHER                        -> {<<>>, <<Junk>>}

PrintenvMain ==
    \E envp \in Envs, names \in Keys :
        Starts("printenv", [envp |-> envp, argv |-> names], [i |-> 1])

PrintenvAll ==
    /\ pc = "printenv" /\ arg.argv = <<>>
    /\ out' = arg.envp /\ pc' = "done"
    /\ UNCHANGED <<arg, loc>>

\* A name without a value prints nothing; the model keeps the NULL.
PrintenvNext ==
    /\ pc = "printenv" /\ arg.argv # <<>>
    /\ IF loc.i > Len(arg.argv)
       THEN pc' = "done" /\ UNCHANGED <<loc, out>>
       ELSE /\ \E value \in get_env_value(arg.envp, arg.argv[loc.i]) : out' = Append(out, value)
            /\ loc' = [i |-> loc.i + 1] /\ UNCHANGED pc
    /\ UNCHANGED arg

\* mywhich takes the search path from MYPATH, or else from PATH; without either
\* it scans at NULL.
WhichMain ==
    \E envp \in Envs, names \in Names :
        \E mine \in get_env_value(envp, MYPATH) : \E theirs \in get_env_value(envp, PATH) :
            LET searchpath == IF mine # NULL THEN mine ELSE theirs
            IN  Starts(IF searchpath = NULL THEN "crashed" ELSE IF names = <<>> THEN "list" ELSE "which",
                       [envp |-> envp, argv |-> names, searchpath |-> searchpath],
                       [i |-> 1, remaining |-> searchpath])

\* A directory is a token of the path, and PATH_MAX is room for it.
Directory == scan_token(loc.remaining, {Colon}, Buffer(Len(arg.searchpath) + 1),
                        Len(arg.searchpath) + 1)

WhichList ==
    pc = "list" /\ \E r \in {Directory} :
        /\ loc' = [loc EXCEPT !.remaining = r.rest]
        /\ IF r.ok THEN out' = Append(out, Str(r.buf)) /\ UNCHANGED pc
                   ELSE pc' = "done" /\ UNCHANGED out
        /\ UNCHANGED arg

NextName == [i |-> loc.i + 1, remaining |-> arg.searchpath]

\* The search for a command goes on after it has been found.
Which_bug ==
    pc = "which" /\ loc.i <= Len(arg.argv) /\ \E r \in {Directory} :
        LET path == <<Str(r.buf), arg.argv[loc.i]>>
        IN  /\ loc' = IF r.ok THEN [loc EXCEPT !.remaining = r.rest] ELSE NextName
            /\ out' = IF r.ok /\ path \in Executable THEN Append(out, path) ELSE out
            /\ UNCHANGED <<pc, arg>>

\* The next directory of the path for the command at hand.
Which ==
    pc = "which" /\ loc.i <= Len(arg.argv) /\ \E r \in {Directory} :
        LET path == <<Str(r.buf), arg.argv[loc.i]>>
        IN  /\ IF r.ok /\ path \notin Executable
               THEN loc' = [loc EXCEPT !.remaining = r.rest] /\ UNCHANGED out
               ELSE /\ loc' = NextName
                    /\ out' = IF r.ok THEN Append(out, path) ELSE out
            /\ UNCHANGED <<pc, arg>>

WhichEnd == /\ pc = "which" /\ loc.i > Len(arg.argv)
            /\ pc' = "done" /\ UNCHANGED <<arg, loc, out>>

-----------------------------------------------------------------------------
(* musl_strtok.  Its client tokenizes one string after the other, and may   *)
(* leave a string before its end, as main of token.c does.                  *)

\* The end of the run from position i in m of characters in (not in) d.
skip(m, i, d)  == Min({j \in i .. Len(m) : j = Len(m) \/ m[j + 1] \notin d})
until(m, i, d) == Min({j \in i .. Len(m) : j = Len(m) \/ m[j + 1] \in d})

\* A call for the string at s (NULL: none is left) in memory m: the memory, the
\* static p and the token after it.
musl_strtok(m, s, d) ==
    LET t == skip(m, s, d)
        p == until(m, t, d \cup {NUL})
        ended == p = until(m, t, {NUL})
    IN  IF s = NULL \/ t = until(m, t, {NUL}) THEN [m |-> m, p |-> NULL, token |-> NULL]
        ELSE [m     |-> IF ended THEN m ELSE [m EXCEPT ![p + 1] = NUL],
              p     |-> IF ended THEN NULL ELSE p + 1,
              token |-> SubSeq(m, t + 1, p)]

StrtokMain ==
    \E strings \in Buffers, d \in Delimiters :
        Starts("strtok", [strings |-> strings, delimiters |-> d],
               [m |-> strings, k |-> 0, p |-> NULL])

\* The call's effect on string k, with the tokens it has given so far.
Call(k, s, tokens) ==
    \E r \in {musl_strtok(loc.m[k], s, arg.delimiters)} :
        /\ loc' = [m |-> [loc.m EXCEPT ![k] = r.m], k |-> k, p |-> r.p]
        /\ out' = [j \in 1 .. k |-> IF j < k THEN out[j] ELSE Append(tokens, r.token)]

StrtokFirst ==
    /\ pc = "strtok" /\ loc.k < Len(arg.strings)
    /\ Call(loc.k + 1, 0, <<>>)
    /\ UNCHANGED <<pc, arg>>

StrtokNext ==
    /\ pc = "strtok" /\ loc.k > 0 /\ Last(out[loc.k]) # NULL
    /\ Call(loc.k, loc.p, out[loc.k])
    /\ UNCHANGED <<pc, arg>>

StrtokEnd == /\ pc = "strtok" /\ loc.k = Len(arg.strings) /\ Last(out[loc.k]) = NULL
             /\ pc' = "done" /\ UNCHANGED <<arg, loc, out>>

-----------------------------------------------------------------------------
(* pig_latin.                                                              *)

Letter == Vowel \cup Consonant
WAY    == <<"w", "a", "y">>
AY     == <<"a", "y">>

pig_regular_bug(w) == From(w, 1) \o First(w, 1) \o AY       \* one consonant only

pig_regular(w) == LET n == strcspn(w, Vowel) IN From(w, n) \o First(w, n) \o AY

\* strchr finds the terminator of an empty word among the vowels.
pig_latin(w) == CASE strcspn(w, Letter) > 0        -> NULL
                  [] w = <<>> \/ w[1] \in Vowel    -> w \o WAY
                  [] OTHER                         -> pig_regular(w)

\* The first word; one that cannot be translated is copied.
PigMain ==
    \E words \in Sentences \ {<<>>} :
        /\ pc = "pig" /\ arg = [words |-> words] /\ loc = [i |-> 2]
        /\ out = IF pig_latin(words[1]) = NULL THEN words[1] ELSE pig_latin(words[1])

\* A further word: the length of NULL is asked for before it is looked at.
PigNext ==
    LET word == pig_latin(arg.words[loc.i])
    IN  /\ pc = "pig" /\ loc.i <= Len(arg.words)
        /\ IF word = NULL THEN pc' = "crashed" /\ UNCHANGED <<loc, out>>
           ELSE /\ out' = out \o <<Space>> \o (IF word = <<>> THEN arg.words[loc.i] ELSE word)
                /\ loc' = [i |-> loc.i + 1] /\ UNCHANGED pc
        /\ UNCHANGED arg

PigEnd == /\ pc = "pig" /\ loc.i > Len(arg.words)
          /\ pc' = "done" /\ UNCHANGED <<arg, loc, out>>

-----------------------------------------------------------------------------
StringMain == TokenizeMain \/ FixedTest \/ PrintenvMain \/ WhichMain \/ StrtokMain \/ PigMain

StringStep ==
    \/ Tokenize
    \/ NextWord \/ NextSyllable \/ NextLetter
    \/ PrintenvAll \/ PrintenvNext
    \/ WhichList \/ Which \/ WhichEnd
    \/ StrtokFirst \/ StrtokNext \/ StrtokEnd
    \/ PigNext \/ PigEnd

-----------------------------------------------------------------------------
(* Properties.                                                             *)

\* The numbers of a set in increasing order, and what s has at these places.
Ascending(S) == [k \in 1 .. Cardinality(S) |-> CHOOSE m \in S : Cardinality({l \in S : l <= m}) = k]
Kept(s, T)   == [k \in DOMAIN Ascending(T) |-> s[Ascending(T)[k]]]

\* The tokens of s: the longest runs without a delimiter.
Begins(s, d)     == {i \in 1 .. Len(s) : s[i] \notin d /\ (i = 1 \/ s[i - 1] \in d)}
TokenAt(s, d, i) == First(From(s, i - 1), strcspn(From(s, i - 1), d))
Tokens(s, d)     == LET begin == Ascending(Begins(s, d))
                    IN  [k \in DOMAIN begin |-> TokenAt(s, d, begin[k])]

\* scan_token gives out the text without its delimiters, nothing twice and
\* nothing left out, in pieces that are shorter than the buffer; a token that
\* fits is stored whole; and fixed_test counts syllables that fit and letters.
ScanRight ==
    /\ pc = "done" /\ "buflen" \in DOMAIN arg =>
          /\ FlattenSeq([k \in DOMAIN out |-> out[k].taken])
                = Kept(arg.input, {i \in DOMAIN arg.input : arg.input[i] \notin arg.delimiters})
          /\ \A k \in DOMAIN out : Len(out[k].taken) \in 1 .. (arg.buflen - 1)
          /\ (\A t \in Range(Tokens(arg.input, arg.delimiters)) : Len(t) < arg.buflen) =>
                [k \in DOMAIN out |-> out[k].text] = Tokens(arg.input, arg.delimiters)
    /\ pc = "done" /\ DOMAIN arg = {"input"} =>
          LET words == Tokens(arg.input, {Space})
          IN  /\ Len(out) = Len(words)
              /\ \A k \in DOMAIN words :
                    /\ (\A t \in Range(Tokens(words[k], {Dash})) : Len(t) < SUB) =>
                           out[k][1] = Len(Tokens(words[k], {Dash}))
                    /\ out[k][2] = Cardinality({i \in DOMAIN words[k] : words[k][i] # Dash})

\* What the readme of assign2 says of a token that does not fit: the buffer
\* holds as much of it as it has room for.
PieceStored == pc = "tokenize" => \A k \in DOMAIN out : out[k].text = out[k].taken

name(e) == First(e, strcspn(e, {Eq}))

\* The value of the first entry with that name.
Value(envp, key) ==
    LET of == {i \in DOMAIN envp : name(envp[i]) = key /\ Len(key) < Len(envp[i])}
    IN  IF of = {} THEN NULL ELSE From(envp[Min(of)], Len(key) + 1)

\* myprintenv prints the values of its arguments.
EnvValue ==
    pc = "printenv" => \A k \in DOMAIN out : out[k] = Value(arg.envp, arg.argv[k])

\* An entry that is taken for another: the name is as long and does not match,
\* but the key is elsewhere in the entry.
Confusing(e, key) == Found(e, key) /\ name(e) # key

\* What holds of the code: the same if no entry is confusing.
EnvValueUnlessConfused ==
    pc = "printenv" =>
        \A k \in DOMAIN out :
            (\A e \in Range(arg.envp) : ~Confusing(e, arg.argv[k])) =>
                out[k] = Value(arg.envp, arg.argv[k])

\* mywhich prints, for every command in turn, the first directory of its search
\* path that has it, and nothing for a command that no directory has.
FirstInPath ==
    pc = "done" /\ "searchpath" \in DOMAIN arg =>
        LET dirs   == Tokens(arg.searchpath, {Colon})
            has(c) == {k \in DOMAIN dirs : <<dirs[k], c>> \in Executable}
            hit    == Kept(arg.argv, {k \in DOMAIN arg.argv : has(arg.argv[k]) # {}})
        IN  out = IF arg.argv = <<>> THEN dirs
                  ELSE [k \in DOMAIN hit |-> <<dirs[Min(has(hit[k]))], hit[k]>>]

\* musl_strtok gives the tokens of the string it was last given, in order and
\* then NULL, wherever the client left the string before; of memory it
\* overwrites only delimiters.
StrtokRight ==
    pc \in {"strtok", "done"} /\ "strings" \in DOMAIN arg =>
        /\ \A k \in 1 .. loc.k :
              LET tokens == Append(Tokens(arg.strings[k], arg.delimiters), NULL)
              IN  IsPrefix(out[k], tokens)
        /\ \A k \in DOMAIN arg.strings : \A i \in DOMAIN arg.strings[k] :
              \/ loc.m[k][i] = arg.strings[k][i]
              \/ loc.m[k][i] = NUL /\ arg.strings[k][i] \in arg.delimiters

\* Both tokenizers split a string as its delimiters say.
TokensRight == ScanRight /\ StrtokRight

\* What a word should become: with "way" if it is empty or begins with a vowel,
\* with its first consonants behind and "ay" if with a consonant, and a copy of
\* itself otherwise, because it cannot be translated.
Translation(w) ==
    CASE w = <<>> \/ w[1] \in Vowel -> w \o WAY
      [] w # <<>> /\ w[1] \in Consonant ->
           LET n == Max({k \in 1 .. Len(w) : \A j \in 1 .. k : w[j] \notin Vowel})
           IN  SubSeq(w, n + 1, Len(w)) \o SubSeq(w, 1, n) \o AY
      [] OTHER                     -> w

Untranslatable(w) == w # <<>> /\ w[1] \notin Letter

\* What the comments of pig_cat say: it puts the words in their order with one
\* space between, copies those it cannot translate and ends.  It does not: of
\* the words after the first it measures the translation before it looks at it.
PigRight ==
    "words" \in DOMAIN arg =>
        /\ pc # "crashed"
        /\ pc = "done" => out = FlattenSeq([k \in DOMAIN arg.words |->
                             (IF k = 1 THEN <<>> ELSE <<Space>>) \o Translation(arg.words[k])])

\* What holds of the code: the same if every word after the first can be
\* translated, whatever the first is.
PigRightUnlessUntranslatable ==
    "words" \in DOMAIN arg /\ (\A k \in 2 .. Len(arg.words) : ~Untranslatable(arg.words[k]))
        => PigRight
=============================================================================
