# libwebvtt in TLA+

This directory holds a specification of libwebvtt, an incremental parser for WebVTT
subtitles written in C. It covers the parser proper, its tokenizer, the lines of times and
settings, the parser of cue texts, the nodes it builds, and the library's own strings,
lists and memory functions: what each of them does, what each of them promises, TLC runs
that compare the two on small instances, and proofs checked by TLAPS for all instances.
Paths below are those of the repository; `parser.c` without a directory is
`src/libwebvtt/parser.c`, `webvttxx/node` is `include/webvttxx/node`.

Contents: [the system](#the-system), [modules](#modules-and-how-they-correspond-to-the-code),
[runs](#runs-and-bounds), [fairness](#fairness), [disagreements](#where-the-code-and-its-documentation-disagree),
[proofs](#proofs), [what is not modelled](#what-is-not-modelled), [plan](#plan).

## The system

A client creates a parser with two callbacks, one for cues and one for errors, hands it a
document in chunks of any size (`webvtt_parse_chunk`), finishes it
(`webvtt_finish_parsing`) and deletes it (`webvtt_delete_parser`). All of this runs in
the client's thread; the library has no threads, no timers and no persistent state. What
is hard about it is that a chunk may end anywhere: inside a line terminator, a token, a
line, a cue. Whatever the parser must remember it keeps in a small stack of frames, in the
state of its lexer and in a line buffer, which are read and written by a dozen handlers.

| component | source | state | operations | properties that make it correct |
|---|---|---|---|---|
| parser | `parser.c`, `parser_internal.h` | stack of frames, `top`, `popped`, `mode`, `line_buffer`, `finished`, position | create, parse chunk, finish, delete; `parse_webvtt`, `webvtt_proc_cueline`, `webvtt_read_cuetext`, `webvtt_proc_cuetext`, `cleanup_stack` | cues and errors do not depend on the chunks; every cue and every line has one owner, also when memory runs out; the stack stays in shape; assertions hold; calls return |
| lexer | `lexer.c` | `tstate`, the token buffer, `bytes`, `line` | `webvtt_lex`, `webvtt_lex_newline` | no byte is lost or used twice at the end of a chunk; the token stays in its buffer; lines are counted |
| delivery | `include/webvtt/parser.h` | cues handed over | the two callbacks | all cues of the document, once, in order, before finish returns |
| time stamps | `parser.c` 263-436, 1042-1218 | a line and a position in it | parse numbers and time stamps, find the arrow | the value is that of the text; what is malformed is reported at its column |
| cue settings | `cue.c`, `parser.c` 300-345 | the settings of a cue, a word | set, split into words, validate | the settings are the last valid ones of the text; a refused report costs what it should |
| cue text parser | `cuetext.c`, `node.c` | tokenizer state, gathered strings; the tree, the open node, the stack of languages | `webvtt_parse_cuetext` | the tree is the one the text describes; languages and ruby texts in place |
| nodes | `node.c` | reference counts, children | create, attach, release | counted exactly, released once, what failed leaves no trace |
| strings | `string.c` | handles on shared, counted buffers; one static empty string | init, create, copy, release, detach, putc, append, getline, replace | counts exact; texts fit; sharing not observable |
| string growth | `string.c` (`grow`) | a size | two loops | the loops end at a size that is large enough |
| string lists | `string.c` | counted lists of counted strings | create, copy, release, push, pop | counts exact; items within the allocation |
| UTF-8 | `string.c` 690-881 | a position in a text | count, skip, convert to UTF-16 | the character found is the one asked for |
| allocator | `alloc.c` | the functions set, a count of blocks | alloc, free, set | the count is exact; a block is freed by the functions it came from |
| cues | `cue.c` | a cue's fields, its count | create, reference, release, validate | counted exactly |
| C++ bindings | `src/libwebvttxx`, `include/webvttxx` | references held by wrappers | forward to C | every reference is released once |
| clients | `file_parser.cpp`, `parsevtt_main.c` | a file | read, feed, finish | every cue of the file is seen |

How they meet: the client calls the parser; the parser calls the lexer for structure and
`webvtt_string_getline` for lines, gathers a cue, calls back with it or with an error, and
may be told by the error callback (a negative value) to stop. The text of a cue is parsed
into nodes by the cue text parser when the cue is finished. All of them hold strings,
lists and nodes by reference counts, and all memory comes through `alloc.c`.

Hard behaviours, in order of importance: splitting of the input at any byte; frames that
are popped and still read ("mailboxes" above the top of the stack); a cue that is ended by
the first line of the next one; errors that stop a call in the middle of a handler;
allocations that fail half-way through one; local variables that are read before they are
set; buffers that are shared and written to; releases that run down a tree others still
hold parts of; numbers that wrap. PROJECT.json lists each with its line.

## Modules and how they correspond to the code

### Document, Parser, Delivery, MCParser, ParserProofs, ReadingProofs

**Document** says what a document is and what it says *when it is read line by line*:
`CuesOf(doc)` and `ErrorsOf(doc)`. This is the reference the parser is compared with. It
knows nothing of chunks, tokens, frames or buffers. A document is a sequence of symbols:
the two halves of the signature (so that a chunk may end inside it), `SP`, `TXT`, `LF`,
`CR` and five kinds of timings, each of which stands for a stretch of a line that holds
`-->`. Timings are told apart by what the parser does about them: well formed (`OK`), end
before start (`BACK`), malformed but usable (`MAL`), garbage after them (`GLUE`), and no
separator where one belongs (`NOSEP`). The table of what each kind does (reports, status,
validity) is compared with the characters of such lines by CueTimings (below).

**Parser** is `parser.c` with `lexer.c`. An action is one turn of one of the loops of a
call, and is named for the state of `parse_webvtt` it is in and for what it finds there:

| code | actions |
|---|---|
| `webvtt_parse_chunk` | `Feed` (the client's call), `ChunkDone`, `ChunkStarved` (the returns) |
| `parse_webvtt`: the token | `Lex`, with `Lexed` for the table of `webvtt_lex` |
| `T_INITIAL`, `T_TAG`, `T_TAGCOMMENT` | `InitialSignature`, `InitialReject`, `TagSpace`, `TagNewline`, `TagReject`, `CommentNewline`, `CommentSkip` |
| `T_EOL`, `T_BODY` | `EolCount`, `EolPop`, `BodyNewline`, `BodyCue`, `BodyDead`, `BodyStarved` |
| `T_CUEREAD`, `T_CUE` | `CueReadText`, `CueReadEol`, `CueReadNewline`, `CueReadStarved`, `CueLine`, `CueMissing`, `CueAssert` |
| `webvtt_proc_cueline` and the timings | `ProcCueLine`, with `TimingsLine`, `SecondIdLine`, `IdLine`, `IdStarved` |
| `webvtt_read_cuetext`, `webvtt_proc_cuetext` | `TextRead`, `TextCarriageReturn`, `TextNewline`, `TextStarved`, `TextUnparsed`, `TextUnseparated`, with `EndTextLine` and `CloseCue` |
| `webvtt_finish_parsing` | `FinishCall`, `FinishCueLine`, `FinishAssert`, `FinishCueText`, `FinishTextStarved`, `FinishUnseparated`, `FinishElse`, `FinishCleanup` |
| `webvtt_delete_parser`, `cleanup_stack` | `Delete`, `CleanupStack` |

Variables are the fields of `webvtt_parser` (`stack`, `top`, `popped`, `mode`, `tstate`,
`token`, `lineBuf`, `line`, `finished`), the local variables that live through a turn
(`tk`, `status`), the client's side (`doc`, `lim`, `pos`, `call`, `ret`) and what the
properties are about (`cues` with their owners, `delivered`, `errors`, and the number of
`strings` allocated for lines). When a call returns, whatever it has not used is gone
(`pos' = lim`), as in C, where the next call gets another buffer. `Dies` says which error
of a call the application refuses, and every handler has its branch for it.

The actions that end in `Starved`, and those that lack something (`CueMissing`,
`TextUnparsed`, `TextUnseparated`, `FinishUnseparated`), are the failures of allocations:
of a cue, of the string for a line, of a new block for one, of an id, of a separator, of the
nodes of a text. Each does what its handler does then, which differs from one to the next:
some pop the frame before they report, some after, some do not report at all (the line that
is appended at parser.c 920), one hands over the cue as if nothing had happened
(`TextUnparsed`). A cue that was made and that nobody holds any more because the report
about its line was refused has the owner `"lost"` (parser.c 773). Documents in `Scarce` are
read while memory may run out.

**Delivery** is the abstract specification: the cues of the document are handed over one
at a time, in order, all before finishing returns; an application may give up. `MCParser`
maps `Parser` to it (`KeepsPromise`) and defines the documents of the runs.

### Lexer, MCLexer, LexerProofs

**Lexer** is `lexer.c` byte by byte, with the turns of `parse_webvtt` and of
`webvtt_read_cuetext` that drive it. Parser has whole symbols and no token buffer to
overrun; here are the byte order mark, the six bytes of the signature, the NUL after the
token, the buffer's size (`BufSize`, 256 in the code) and the line number, which the lexer,
the handlers and the readers of text all advance.

| code | actions |
|---|---|
| `webvtt_lex` | `Lead` (a byte that leads on), `End` (one that completes a token), `BackUp` (one that does not belong), `SkipMark`, `SpaceFull` (white space is cut to the buffer), `Overrun` (anything else that finds it full) |
| `parse_webvtt` in `T_INITIAL` to `T_BODY` | `InitialSignature`, `InitialReject`, `Tag*`, `Comment*`, `Eol*`, `Body*`, as in Parser |
| lines of a cue: `T_CUEREAD`, `webvtt_read_cuetext`, `webvtt_lex_newline` | `LineText`, `LineEol`, `CarriageReturn`, `Newline`, `CueLine`, `TextNewline`, `TakeLine` |

What a line says is left open: after a line of a cue comes anything that a line may lead to.

### Numbers, Timestamp, TimestampText, CueSettings, SettingsText, CueTimings, MCCueTimings

These are `webvtt_proc_cueline` of a line with `-->` in it, character by character, and the
application's own way to the settings, `webvtt_cue_set_settings`. **Numbers** is
`webvtt_parse_int` on integers of a limited width and of any base. **Timestamp** is
`webvtt_parse_timestamp`, an action for each stretch between two of its jumps. **CueSettings**
has the setters of `cue.c` and the splitting of a word at its colon. **CueTimings** is the
rest: `Start`, `ReadTime`, `BadStamp`, `MalformedRefused`, `GoodStamp`, `NoArrow`,
`SkipArrow`, `Glue` for the times, `CopySettings` and `CopyFails` for the string the rest of
the line is copied to, `Begin`, `CollectWord`, `WordFails`, `SetWord`, `Finished` for
`webvtt_cue_validate_set_settings`.

**TimestampText** and **SettingsText** say the same of the text as a whole: what a time is
and what it is worth, in the arithmetic of natural numbers; the words of a line, what each
sets, what there is to complain of and at which column. `StampExact`, `SettingsExact` and
`LineExact` compare the two. `DocumentAgrees` ties this to Parser: a line of characters that
is of one of Document's kinds does what Document's table says of that kind.

### CueMarkup, CueText, MCCueText, CueTextProofs

**CueMarkup** reads a text as markup: cut into tags and runs of text (`Cuts`), each read as a
whole, one after the other (`Reads`), into the list of nodes in document order (`MarkupOf`). **CueText** is `cuetext.c`:
the tokenizer, one action per state and kind of symbol (`DataEscape` to `PlainChar`), and
the loop of `webvtt_parse_cuetext`, one action per way a token is taken (`EndAtHead` to
`StartOpens`). `kind` is the local variable of that name with its value from earlier turns,
and `UnsetKinds` is what such a variable may hold before it is assigned: the code does
read it then, for a tag whose name is one byte that names no tag. `Outline` reads the tree
of nodes from the head along the children, and `TreeExact` compares it with `MarkupOf`.

### NodeTree, NodeTreeProofs

**NodeTree** is `node.c` with everybody who holds a node. CueText says which tree a text
has when there is memory; here the text is any sequence of tokens, any allocation may fail,
and the question is who holds what.

| code | actions |
|---|---|
| `webvtt_attach_node` | `Full`, `Attached`, `Refused`, as parts of the steps that attach |
| `webvtt_release_node` | `Released`, then `ReleaseChild` and `ReleaseEnd` for each turn of its loop; `work` is the stack of calls |
| `webvtt_parse_cuetext` | `CreateHead`, `HeadFails`, `NodeFails`, `DataFails`, `AddLeaf`, `OpenNode`, `RubyText`, `CloseNode`, `UseReleased`, `ParseEnd` |
| `finish_cue`, `AbstractParser::__parsedCue`, `Cue`, `Node` | `InvalidCue`, `ParsedCue`, `CopyCue`, `DestroyCue`, `NodeHead`, `CopyNode`, `ChildOf`, `ChildOfNothing`, `NodeOfNothing`, `DestroyNode` |

A release is as many steps as it has calls and turns, so that the counts can be compared
with the holders in the middle of it. Where the C code would use a pointer that is null,
unset or freed the model goes to `at = "undefined"` and stays there; `DefinedOtherwise`
says which failures that takes.

### StringValues, Strings, StringSizes, Growth, StringsProofs, StringCallsProofs

**Strings** has handles (`d`), buffers with a count, a capacity and a text, and one action
per function of `string.c` that changes them. `Write` is `grow` followed by the copying of
bytes: nothing, if there is room and whatever the count is; else a new block; else, if the
allocator refuses, nothing at all. **StringValues** is what the functions promise: each
handle has a value of its own. `SharingUnobserved` says that `Strings` implements it.
The constant `Detaches` makes callers detach a shared string before they write to it,
which all of the functions but `webvtt_string_putc` leave to them.

**StringSizes** defines the size `grow` finds (`NewSize`) as a minimum over powers of two;
**Growth** is the loops of `grow`, one turn a step, in arithmetic that wraps at `Word`,
and is shown to stop at `NewSize`, by TLC for small words and by proof for all
(`GrowFindsNewSize`). That is what allows `Strings` to use `NewSize`.

### Replace, Utf8, StringCalls, MCStringCalls

**Replace** is `webvtt_string_replace_all`: `ReplaceOne`, `NoMemory` and `NoneLeft` are the
turns of its loop, `MemMove` and `MemCpy` work on the bytes of the block, those behind the
text included (`Spare` is how many bytes a block has behind those `alloc` counts, 8 or 4).
The move takes as many bytes as follow the *first* byte found, and so reads behind the text.
**Utf8** is `webvtt_utf8_chcount` (`Count`), `webvtt_skip_utf8` with `webvtt_next_utf8`
(`Skip`, `Skipped`) and `webvtt_utf8_to_utf16` (`Convert`, `Lead`, `Continue`, `Ended`), in
the order `String::charCount` and `String::utf16At` call them. **StringCalls** makes one
call, of `grow`, of one of these or of the other, so that one run can see all loops end.

### StringLists, Allocator

**StringLists** has lists with a count, the capacity on record (`alloc`), the capacity that
was really allocated (`room`) and items. Callers may push again after a push that failed, as
`cuetext.c` does; once an item has been written past the room of a list (`Overrun`), what
follows is undefined and the module stops. **Allocator** has `n_alloc`, the functions that are set, and for each
block where it came from; `++n_alloc` and `--n_alloc` are two steps of the calling thread.

## Runs and bounds

| run | instance | what it shows |
|---|---|---|
| `parser_reading` | bodies of up to 5 of `TXT OK LF CR`; starts of up to 4 of `WEB VTT SP TXT LF CR`, alone and after the signature; bodies of up to 4 of `SP WEB VTT OK BACK LF`; 405,474 states | the parser implements `Delivery`; errors and their lines are exact; the stack keeps its shape; assertions hold |
| `parser_failing` | bodies of up to 3 of `TXT OK MAL GLUE NOSEP LF`, and of 2 more after good timings, with no refusal, the first or the second error of a call refused; bodies of up to 3 of `TXT OK LF`, alone, after timings, and after timings and a line of text, and ids followed by up to 2 of `SP CR`, read while memory may run out; 76,694 states | what is handed over is whole, or the beginning of what the document has; no cue is lost and each has one owner, also when an error is refused or an allocation fails; while there is memory the strings that are allocated are those that something holds, but for one line that is left in two cases; every call returns |
| `cuetext` | up to 4 whole tags (10 with text; 8 with unknown names), tags of up to 5 symbols, escapes of up to 6; three values of an unset kind; 1,151,350 states | the tree is exact; languages, ruby texts; the call returns |
| `lexer` | a buffer of 8 bytes; starts with and without the mark, bodies with lines like tokens, chains of lines, white space that fills the buffer; 1,515 documents, 163,000 states | tokens fit; no byte of a line is lost; the signature is judged as the first line deserves; lines are counted |
| `cue_timings` | lines of times and settings in base 4, sixty scaled to 10, a thousand to 64, a hundred to 16, numbers that wrap at 256; allocations may fail; 167,793 states | times and settings are those of the text; buffers are big enough; the parser's table of timings is right; the line is done |
| `nodes` | up to 4 nodes and the static one, a first array of 2 children, 2 cues, 2 node objects, one failure of an allocation; 662,189 states | counts are exact also in the middle of a release; what nobody holds is freed, what somebody holds is not; the open nodes are alive; which failures undefined behaviour takes |
| `strings` | 3 handles, 3 buffers, texts of up to 3 characters, sizes scaled down to 4 and 16; 13,979 states up to symmetry | counts, room; values are implemented |
| `string_calls` | `grow` with every request up to 32768, modulo 65536; texts of up to 6 bytes of 3 in blocks of 3, 7 and 15, searches of up to 5 bytes; texts of boundary encodings of 1 to 4 bytes, from every begin, offsets from -1 to 4; 203,873 states | the size found is the one specified; replacing replaces, and replaces all; the UTF-16 unit is the one asked for; all end |
| `string_lists` | 2 strings, 2 handles, 2 lists, 2 holders, up to 5 items, callers that push on after a failure; 31,613 states up to symmetry | counts; lists are overrun only after a failure |
| `allocator` | 5 blocks, 3 allocators, one thread; 1,191 states | the count; blocks and allocators match |
| `find_comment`, `find_skipped` | a few documents | two disagreements, below |

Why the bounds are enough. *Parser*: the stack has three frames, the modes are three, and a
cue shows all that can happen to it within a few lines (an id, timings, a line of text, a
blank line or the timings of the next cue). Five symbols after the header hold every part
of that, two cues that share a line, and every terminator in every position; all ways to
cut a document are explored because `Feed` picks any length. The second header set covers
every first line of four symbols, more than any path through `T_INITIAL`, `T_TAG` and
`T_TAGCOMMENT` takes. An allocation can fail in every handler and in every frame, for a cue
with an id, with timings, with one line of text and with two. *Lexer*: the longest token is
the mark or the signature with its NUL, which fills a buffer of 8 as it cannot fill 256;
only white space grows beyond that, and five to nine of it fill the buffer and overfill it.
*Cue timings*: the scaled numbers are small enough for texts of a few digits to hit the
limit of every field, to wrap, and to be too long by one. *Cue texts*: a rule of the tree
relates at most three open nodes and one tag; the tokenizer's longest paths through its
states are `<`, name, `.`, class, `>` and `<`, name, white space, annotation, `>`. *Nodes*:
three nodes below the head are what it takes to have nested ones, siblings, and some that
are shared with an object when the cue goes; the first array is full with two, so that the
third child grows it. The run also passes with two failures. *Strings*: sharing takes two
handles, a third tells "the last reference" from "the last but one"; scaled sizes let three
characters fill a buffer and outgrow it twice, a first line be longer than the block it
starts with, and `MaxLine` be reached. *String calls*: a
word of 16 bits has every boundary one of 32 has; a block is outgrown twice, and a search of
5 bytes is longer than the 4 bytes that the smaller `Spare` leaves behind the text; each
comparison of the UTF-8 functions has an encoding on either side of it. *Lists*: the first
two growths (at no items and at three) happen within five items; the growths after them use
the same formula on larger numbers, and a first growth that fails leaves a list without room
to be pushed to. *Allocator*: nothing counts beyond the difference
between none, one and several.

Deadlock is checked wherever the program cannot stop by itself: Parser, CueText and
StringCalls step on forever once they are done, and Allocator always has a call to make. In
the runs of Strings and StringLists it is off, as the bounds on the length of texts and
lists and the number of blocks may leave nothing to do; in those of CueTimings, Lexer and
NodeTree because a line, a document, a program is at an end.

Each property is paired in PROJECT.json with a mutant, a definition with a plausible bug
(an operator whose comment starts with "Mutant") that makes TLC report that property.

## Fairness

The fair steps are always those of *one call that runs*: `WF_vars(Parser)` for the turns of
a call (not for the client, who may never call again), `WF_vars(Tokenize \/ Build)` for
`webvtt_parse_cuetext`, `WF_vars(Halve \/ Double)` for `grow`, `WF_vars(Next)` in
CueTimings, Replace and Utf8, which are one call each, and the same of all three loops in
StringCalls. A call is ordinary sequential code in the client's thread, waits for nothing
and takes its next step as long as the thread runs; weak fairness says no more than that.
An allocation that fails is a choice within a step, not a step that might be left out.
Lexer, NodeTree, Strings, StringLists, Allocator, Delivery and StringValues state safety
only. Type invariants and inductive invariants are proved instead of run.

## Where the code and its documentation disagree

Two runs end in a counterexample, each against a sentence of the repository:

- `find_comment`: a comment after the signature leaves the frame in `T_INITIAL`; what
  follows is refused as a malformed tag (parser.c 709-714).
- `find_skipped`: the text of a skipped cue that goes on in the next chunk is reported with
  a status that `WEBVTT_FAILED` holds for, where the same is "not really a failure" for a
  good cue; a client such as `FileParser` stops reading (parser.c 1017, 1030).

Others were met while modelling. The models behave as the code does, and the properties
name the exception where there is one, but no run of its own shows them.

Of the parser and the lexer:

- An unterminated last line with `-->` inside the text of a cue starts a cue that nothing
  processes (parser.c 213, 899-902).
- A line of timings without a separator is never released, and leaves the parser in
  `T_CUE` without a line, where the next turn fails `SAFE_ASSERT` (parser.c 515, 788).
  `AssertionsHold` is stated for documents without `NOSEP`; in `StringsAccounted` this line,
  and that of a refused report about timings, are the exception `TimingsRefused`.
  `SAFE_ASSERT` at parser.c 843 assigns where it means to compare.
- `cleanup_stack` is there "to prevent leaks" (parser.c 110-111), but starts at the top. A
  line that was handed over in the frame above it and not looked at is released by nobody:
  when the parser is deleted after a chunk that ended in the LF of a line of a cue (parser.c
  610), or finished in the middle of a line with `-->` inside a text (parser.c 899-908).
  That is the exception `EndedOnLine` of `StringsAccounted`, and the only other one.
- In the comment on the line of the signature the token is not emptied from one to the
  next, so that it outgrows its buffer (parser.c 717-719, lexer.c 286); `TokenFits` and
  what follows from it except that frame.
- A callback that refuses a malformed time stamp makes the parser skip the cue and go on
  with success (parser.c 388), though that of parsevtt says "Die on all errors".
- A cue that starts inside the text of another has its line counted twice; a token that is
  incomplete at the end of the document is ignored; a cue with an id and bad timings at the
  very end is also reported as incomplete. With the missing separator above and the comment
  after the signature these are the exceptions of `ErrorsExact`.
- A cue whose timings are reported is lost if the report is refused (parser.c 773). A line
  that cannot be appended to a text is lost without a report (parser.c 920), and one that
  is cut before its `-->` because memory ran out becomes text. `ERROR` at parser.c 801 takes
  a status as an error's code, and the string of that line leaks. A line buffer that was
  made and could not grow stays allocated and empty; the next read looks at the character
  before its text (string.c 345-369, parser.c 851), which C leaves undefined. The model
  does not tell such a buffer from none, so that the read finds no mark.

Of lines of times and settings:

- A percentage that wraps around can be set out of range (cue.c 305). The comment on a line
  in percent says 0 < number < 100 where the code takes 0 and 100. `line:-1` is stored as
  the value that means "auto". One digit of hours is accepted. Settings given to
  `webvtt_cue_set_settings` with a line feed before a carriage return are not cut at it.
- Where `webvtt_parse_int` overflows, which C leaves undefined, the model wraps around.

Of cue texts and nodes:

- White space after a class ends the tag's token, and the annotation becomes text
  (cuetext.c 488). `</x>` of an unknown name closes a node because the kind of an earlier
  tag, or what the stack held, is left in the variable (cuetext.c 197-214, 232, 739), and
  `<x>` makes a node, though the tests say that such tags are ignored
  (pltagformat_unittest.cpp 25, 27). The end of a ruby closes only its open ruby text
  (cuetext.c 755). These are the exceptions of `TreeExact`.
- A failure of `webvtt_attach_node` is not looked at (cuetext.c 783): the node is released
  and yet stays the open one. A node whose data cannot be had leaks; a node for a language
  that cannot be had is dereferenced. The C++ `Node()` reads a pointer that is not set, and
  a head that was never created has no children to count; `Node` has no assignment. There
  is no limit on the depth of the recursion that releases nodes.

Of strings, lists and memory:

- A list whose memory could not be had counts as grown, and the next push stores outside of
  it (string.c 611). `webvtt_parse_cuetext` does not look at the failure (cuetext.c 794) and
  pushes again at the next `<lang>`. `OverrunsAfterFailure` says that this is the only way.
- `webvtt_string_append`, `_getline` and `_replace` write to shared buffers when there is
  room (string.c 447); hence `Detaches`. `webvtt_string_detach` does not look at its
  allocation (string.c 195).
- `webvtt_string_replace_all` does not end if what it puts in holds what it searches for
  (string.c 529); the calls of the run are not of that kind.
- `webvtt_skip_utf8` and `webvtt_utf8_to_utf16` stop at a NUL, at a byte that starts no
  character and at a character that is cut off (string.c 700-751), which `Utf16AtExact`
  excepts or its texts do not have. `webvtt_utf8_length`
  gives 5 for two bytes that start no character. A byte in the middle of a character that
  should not be there is passed over. string.h 309 says that skipping can go backwards,
  which the code does not do. In `webvttxx/string`, 198 reads one unit too many, 118 has the
  wrong precedence, and 97 can use a unit that was not set.
- Two threads can change the allocator under a block (alloc.c 64-91, where a TODO says that
  a lock is missing); the run has one thread.

## Proofs

TLAPS checks eight modules. The constants are arbitrary, with the assumptions their modules
name; none is a bound but for sizes of strings, which stay below what 32 bits count
(`LengthsAssumption`, and requests of up to 2^30 bytes in `GrowFindsNewSize`). One theorem
of ParserProofs, two of ReadingProofs and three of LibraryProofs have a hypothesis about the
client or the allocator, given below.

**ParserProofs** proves `Spec => []IInv` and from it `TypeOK`, `StackShape`, `NoCueLeaked`
and `HandedOverIsFinal`, for every set of documents, all ways to cut them, all refusals and
all failures of allocations. `StackShape` alone is not inductive. It says what the top frame
looks like; to see that a pop leads to a good frame one must know what lies below
(`BottomFrame`, `MiddleFrame`: how far a frame may pop back), that a cue is held by the
middle frame and no other (`CueFrames`, `CueIsHeld`), that a line read ahead is in the frame
above (`LineFrames`), that the mark in the line buffer is its last element (`MarkIsLast`),
which cues lack something (`LacksCue`), and that a string which is released was counted
(`StringsCovered`). The proof has one lemma for each operator that changes a frame, one per
action and one for each shape the stack takes. `HandedOverIsFinal` follows because only the
cue of the middle frame is ever written, and that one is the parser's; `NoCueLeaked` because
`CleanupStack` visits that frame.

`OneOwner` takes one more invariant, that the cues in `delivered` are those the application
owns, each there once (`Handed`): every step hands over at most one cue, and that was the
parser's. `AssertionsHold` is proved for an application that lets every report pass
(`Dies \subseteq {0}`) and for documents that are read with enough memory (`doc \notin
Scarce`), as in the run that checks it. The invariant for it (`Calmly`, with
`TextsSeparated`) says that a cue on top has a line to look at, that a line that is held is
being read or is looked at next, and that no other string is allocated.

`StringsAccounted` has no hypothesis: any document, any refusal. Its holders are those that
`cleanup_stack` and `webvtt_delete_parser` reach, and the frame above the top only while
its line is handed over and waits to be looked at. The first half of the invariant is here
(`Accounted`): a line to look at is there, a line that is held is being read or waits; and
every string is that of the upper frame or of the line buffer (`AllInUse`), but for one that
is lost when the parser fails on a line of timings (`LineLost`); it is then stuck at the cue
with nothing to look at (`Stuck`) until it is deleted, so that it loses no second one. The
other half is about where in the document the parser is and follows in ReadingProofs: a line
that was read and not looked at is one whose LF is the last symbol used, unless there is
more to use (`LineEnded`), and what is left above the top when all is over was such a line, or
the last one of the document (`LineLeft`).

**ReadingProofs** extends it and compares the parser with the reading of the whole document line by
line, for documents of any length. `DeliveredIsSound` says that what was handed over are cues
of that reading, whole and in their order, whatever the application refuses;
`ParserDelivers` says that `Parser` implements `Delivery` if the application lets every
report pass and goes on feeding, which is what the run assumes too. The first part is about
Document alone. `Splits` and `Readers`, the stages of the splitting and of the reading, are
recursive functions, and `SplitsExist` and `ReadersExist` show by a least-number argument
that there are functions that satisfy their equations, so that one more symbol changes a
stage as it should (`BeforeText`, `BeforeEnding`, `BeforeReturn`). `Reader` is then the
line by line reader at the place where the parser is (`Place`: one symbol back while a CR
waits for an LF), and `Left` is what it has of the line it is on. The invariant `Tracks`
says that the parser follows that reader: before the header, between cues, on the first
lines of a cue or in a text (`Following`, one disjunct for each), the cues that were handed
over are those the reader has (`Fit`), the line is the same wherever the parser keeps it
(the token, a frame, the line buffer), and the cue is the same (`Follows`); or it is
`Over`, and nothing more will be handed over. There are lemmas for each action and for
each place. An application that refuses a report may leave the parser on a line that it
then reads as something else, and miss cues; that is why the first theorem says "in their
order" and not "the first".

Both theorems leave out documents with a comment after the signature: there the parser
takes a second signature for the header, where the reader of lines takes it for an id
(`SignatureAccepted` is the finding about such documents). The attempt to prove
`DeliveredSound` without that exception showed that it is false of longer documents than
those of the runs; it and `DeliveredInPart` now say so, and `DeliveredSound` asks for the
order as well. `ParserDelivers`
further leaves out the two cases the run leaves out: times without a separator, and a last
line that starts a cue inside the text of another.

`ErrorsAreExact` adds to `Tracks` what was reported. Its invariant (`Tells`) says of each
place what the errors and the line number must be, given those of the reader (`SaysHere`,
with one part for each disjunct of `Following`). Most places agree with the reader
(`Agrees`). The others are those where the parser has counted a line end that the reader
has not seen, has the first lines of a cue with its errors yet to be reported, or
reports that a text has ended; and once the document has been read to its end the two have
the same errors (`Exact`), or the parser gave up at the signature and so did the reader. The proof shows
that each handler reports what the reader does with the same line (`TimingsTell`,
`LineTells`), and that nothing is left out when finishing meets a cue half read. It needs
the application to let every report pass, and memory. The attempt showed that `ErrorsExact`
must leave out documents in which a time has no separator, which it now does: the parser
stops there, and in longer documents than those of the runs what it reports is then not
what the lines call for.

`StringsAreAccounted` puts `Accounted` of ParserProofs and the place of the parser together.
A line that waits to be looked at ended at an LF just used (a CR would still wait for what
follows it), and the reader knows it for a line that starts a cue (`CueLineEnds`); a line
left in a text that is finished is the open line of the document (`FinishTextLeft`).

**LexerProofs** proves, for a buffer of any size above six and for every set of documents,
that a token and its NUL stay in the buffer, but for the comment named above (`TokenFits`),
and that the line number is that of the place where the parser reads (`LineCount`). For the
first, the invariant says of each state of the lexer how much of a token it stands for
(`LexedBound`; only white space has no such bound, and is cut) and how much is left over
while the lines of a cue are read (`LineBound`). For the second, it says that a carriage
return that was used is either waiting for what follows it or was followed by something
else than a line feed (`ReturnSeen`), and where a line may be waiting (`Phases`).
`TextExact` and `VerdictExact` compare the lexer with the whole document. For the first, the
invariant says at every place which bytes of the current line are in the token, which in the
text of the frame and which in neither (`TextIsLine`); for the second, it says which bytes
the document has at its beginning in each state of the lexer (`Header`, one disjunct for
each part of the header; byte order marks, of which there may be any number, included).

**NodeTreeProofs** proves, for any number of nodes, cues and objects and any failures, that
counts are exact (`CountsExact`), that a freed node is not touched (`FreedUntouched`), that
children fit in their array, and that only the failures it names lead to undefined behaviour
(`DefinedOtherwise`). A count is compared with the set of all places that may hold a node
(`Places`) and the variables, cues and objects that do. The invariant adds what each stage
of the parser says of its variables (`Stages`), what must have failed where something is
missing (`FaultsKnown`), that running calls of release are about different nodes which
nobody holds (`WorkSound`), that what is open can be given children (`ParentsSound`) and
that a freed node has no holder (`FreedUnheld`).

`OpenNodesSafe` and `KeptIffReachable` take a second invariant, kept as long as the first one
is (`Tidy`): children are newer than their parents (`Newer`), open nodes are newer than the
open nodes they are in, down to the head (`Chain`), and what nobody holds is freed, but for
the nodes of running releases (`NoneLeft`). Suppose a node is allocated that no root reaches.
It has a holder; that is an older node, allocated and not reached either; so there is no
oldest one, which cannot be. Reachability and the way up are recursive functions, and
`Iterates` shows that there are functions that satisfy their equations.

**CueTextProofs** proves `TypeOK`, `TreeShape` and `RubyTextInRuby` for every text and every
value of `UnsetKinds`. The invariant adds that the first node is the head, which no end tag
closes (`HeadFirst`), and that parents are older than their children and can have children
(`InnerParents`): closing a node makes its parent the open one. For `LangsSound` it also
says that a node that can be around others has the language in effect inside it
(`InEffect`), and, since `Around` is a recursive function, that its equation has a solution
(`GivesLangs`); a new node extends the solution, and by the least-number argument it is the
only one.

`TreeIsExact` proves `TreeExact`, again for every text: the tree is the one the text
describes, but for the three kinds of text that CueMarkup names. Its invariant (`Follows`)
has two parts. `Gathers` compares the tokenizer with `Cuts`: between two pieces nothing is
gathered, or a token waits that is the last piece read as a whole (`TokenFor`); inside one
the buffers are what its symbols so far come to, with one case for each state of the
tokenizer (`Half`). `Fits` compares the tree with `Reads` of the pieces whose tokens are
taken (`Taken`): there are depths for the nodes (`Deep`), a way from the head to the open
node (`Leads`) and for every node the last node below it (`Spans`), such that the nodes in
the order of their making, with those depths, are the rows that were read, and the nodes on
the way are those open in the reading. The spans are what makes the order of making the
order of the tree: below a node are all nodes from it to the end of its span (`BelowIs`), so
`Outline` lists the nodes as they were made. A text with a piece that CueMarkup names stays
outside (`Odd`); white space after classes is told from the whole text, since the tokenizer
then drops out in the middle of a piece.

**StringsProofs** proves, for any number of handles and buffers, whether the allocator
refuses or not, that counts are exact (`RefsExact`) and that the empty string is never
written (`EmptyIsEmpty`); and, if callers detach, that `Strings` implements `StringValues`
(`ValuesImplemented`): each call maps to one action of the abstract module or to a stutter.
The step that matters: a buffer that is written in place is held by one handle only, which
is what the exact count gives, or there is no room in it, as in the empty string.
`Fits` is proved for texts of any length below half of 2^30, among them first lines that are
longer than the block a line starts with (`StartLine`): what each function asks `grow`
for is enough for what it writes (append asks for more than it needs, replace for all of the
new piece), and `NewSize` is never below what is asked for (`NewSizeHolds`).

**StringCallsProofs** proves of Growth `BigEnough` for a word of any size in which the page fits and every
request is at most half of it. The invariant: while halving the size is above the request
and one of a few powers of two; while doubling it is still below. `GrowFindsNewSize` proves
that the loops end with `NewSize` and no other size, for requests of up to 2^30 bytes: the
size is always a power of two, and between one and the next there is none.
Of Replace it proves `ReplacedSoFar` (`ReplacedInPlace`) for every text, every byte that is
searched for and whatever it is replaced by, if that does not have the byte again (the loop
would have no end) and the texts stay below 2^30 bytes; and that no byte is moved that is not
one of the block (`NothingOutside`). The invariant: the block has room for its text, and the
text is the original replaced as far as some byte, in front of which what is searched for does
not occur any more (`ReplacedTo`). It may as well be counted as replaced up to the next
occurrence (`Furthest`), so that the first one found is the one right behind (`FoundBehind`);
`MovesGive` says what the two moves of memory leave of the block, and `FlattenMore` what one
more part adds to `FlattenSeq`, in which the definition is stated.

**LibraryProofs** is about three smaller modules. It proves of StringLists, for any number of strings, lists, handles and holders and
whatever allocations fail, that the counts of lists and strings are exact (`CountsExact`);
and that a list is overrun only if it could not grow before and was pushed to again
(`OverrunsAfterFailure`), for callers who push on as well as for those who stop. The first
needs that a list nobody counts is empty; the second that the room never exceeds the capacity
on record, and that a list that is not full has less items than that capacity.

Of Allocator it proves `CountExact` and `FromCurrent` for any number of blocks and
allocators, if there is one calling thread. The invariant relates the count to the blocks
in use and to what the call that runs still owes.

Of CueTimings it proves `InBounds` (`LineStaysInBounds`) for every line, every text of
settings, any base, units and sizes of words. The invariant (`BoundsInv`) adds to the ranges
how the column and the words relate to the position (`LineIn`), how far a call of
`webvtt_parse_timestamp` has read behind the place it was called at (`StampIn`), and which
values go with which stage (`StageIn`). The scans (`SkipSpaceIs`, `WordEndIs`, `DigitsEndIs`)
have their lemmas, as have the values: what `Accumulate` comes to exists, is the only
solution of its equations (`AccumulateIs`) and is in the range of the word (`AccumulateIn`).

`StampsAreExact` proves `StampExact`, again for every line. The invariant (`Found`) says for
each stretch of `webvtt_parse_timestamp` which runs of digits it has passed, with the
characters between them, what each field is worth, and what the text says so far of hours
and of being malformed (`AtSecond` to `AtCarry`); every way out without a time is then one on
which the text cannot be `Usable` any more (`UsableIs`). Two more things make the value right:
a number that is below half a word at its end was so all the way, so that nothing wrapped
(`SpeltIs`), and carrying over keeps the sum of the fields (`CarriesKeep`), changing them just
when one is too large; three digits never are (`ThreeDigits`), so what is carried was malformed
already.

`SettingsAreExact` proves `SettingsExact` for every line of times and every text of settings
whose numbers fit an integer. A first invariant (`Where`) says of each stage how far the scan
is: behind which time, at or behind the start of which word, and that a line which gets as far
as its settings has two usable times (`TwoTimes`). The second (`Kept`) says that the settings
are always those the words up to the one being read make (`Final` over `Before`); a word adds
to them what it alone says (`Agrees`, `Given`), so that the last meaningful one of each key
counts. Each of the five setters is compared with `Means` and `Value` of the word in a lemma of
its own. What the proof assumes of the constants is what the code has: an integer is not wider
than the word a number is read into, the buffer of a keyword has room for more than its
terminator, "%" is not a digit, and a line of times has no terminator in it, since the lexer
ends lines at them (`SettingsAssumption`, `TerminatorsAssumption`).

Only model-checked: `DeliveredInPart`, which needs a second invariant like `Tracks` for
memory that runs out; `DocumentAgrees` of CueTimings, and `Utf16AtExact`,
which compare a scan with a definition that goes through the whole text in another way and
would each need what `TreeIsExact` took, an invariant that says of every place in the scan
what the definition says of the text so far; and liveness, which the provers here do
not reach (`CallsReturn`, `Returns`, `LineExact`, `SizeFound`, `AllReplaced`). The library's
rules of induction cannot be used with these provers; the least-number principle can, which
the proofs derive from the well-foundedness of inclusion between finite sets (`Least`,
`LeastNumber`), and which the proofs about readings, languages, markup and reachability use in
their place.

## What is not modelled

- The columns of errors outside a line of timings, the errors' texts, the callbacks' user
  data, character sets.
- Calls of `webvtt_parse_chunk` after `webvtt_finish_parsing` or after memory has run out;
  no client of the repository makes them.
- Failures of allocations in the tokenizer of cue texts. Those of nodes are in NodeTree,
  those of the parser's own in Parser.
- The rest of the C++ classes `String`, `StringList`, `Error` and `Timestamp`, which only
  forward; of `Cue` and `Node` the references are in NodeTree.
- Two threads (alloc.c 91).
- Code that nothing reaches: `T_CUEID`, which no code enters, and `webvtt_lex_word`.
- Input and output, tests, the build.

PROJECT.json says of each component what is left out, and of each hazard without a property
why there is none.

## Plan

Done, in this order: Document and Parser (the heart of the library), Delivery, the parser's
invariant and its proof; CueMarkup and CueText with proofs; Strings over StringValues with
the refinement proof; Growth; StringLists; Allocator; then Timestamp, CueSettings and
CueTimings, which also check the table Document has of timings; Lexer with proofs; NodeTree
with proofs; the failures of allocations in Parser, with its proofs carried over; Replace
and Utf8.

Next, most important first:

1. Proofs: `DocumentAgrees` of CueTimings; `DeliveredInPart`.
2. The failures of allocations in the tokenizer of cue texts, composed with those of
   NodeTree.
3. The remaining C++ wrappers, composed with Strings.
