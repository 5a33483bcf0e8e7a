----------------------------- MODULE MCStories -----------------------------
(* Instances of Stories for TLC.  A LET keeps TLC from unfolding what is
   behind it (see Stories). *)
EXTENDS Stories, StoryPrograms

Z == INSTANCE Z68

MCNames == ProgramNames
MCSource == LET sources == ProgramSources IN sources
MCExpected == LET meanings == ProgramMeanings IN meanings
MCRefused == Refusals
MCEnds == ProgramEnds
MCKeys == ProgramKeys
MCFaults == ProgramFaults

MCNumerals == LET numerals == Lexicon.numerals IN numerals
MCQuoted == LET texts == Lexicon.texts IN texts
MCPrimed == LET words == Lexicon.words IN words
MCHashed == LET hashes == Lexicon.hashes IN hashes
MCEscapes == LET escapes == Lexicon.escapes IN escapes

MCBeginPass(source) == LET start == begin_pass(source) IN start
MCPassStep(c) == LET next == StoryStep(c) IN next
MCLoadStory(file, fault, keys) ==
  LET loaded == Z!Load(Z!Start(file, fault, keys, FALSE, << 4660, 22136 >>)) IN loaded
MCWaits(m) == LET waits == Z!AwaitsLine(m) IN waits
MCRunInstruction(m) == LET next == Z!vm_run_loop(m) IN next
=============================================================================
