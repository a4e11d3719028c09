----------------------------- MODULE MCCapture -----------------------------
\* Small instances of Capture for TLC: MIME types of one or two bytes, labels of
\* four.
EXTENDS Capture

MCSpecial == {<<120>>}
MCKde == {<<97, 107>>}
MCImage == {<<105>>}
MCUriList == <<116, 117>>
MCPlainUtf8 == <<116, 112, 59>>
MCPlain == <<116, 112>>
MCHtml == {<<116, 104>>}
MCOther == {<<97>>}
MCPicture == <<137, 0>>

\* Plain characters, a percent sign before digits, a character of two bytes and a byte
\* that is none.
MCPaths == {<<47, 97>>, <<47, 98, 47, 37, 52, 49>>, <<47, 195, 169, 255>>}

Short == <<97, 98>>
\* White space of two bytes and of one; the cut is inside a character.
Accents == <<194, 160, 97, 195, 169, 195, 169, 10>>
\* The cut is behind a character of three bytes; the beginning of one of four.
Euro == <<226, 130, 172, 97, 240, 159>>

\* The same types and data in two orders, a type with two variants in two orders, two
\* offers with one encoding but for the separators, and two with one encoding because
\* of a NUL.
MCOffers ==
    {<<With(MCPlain, Short), With(MCPlainUtf8, Short)>>,
     <<With(MCPlainUtf8, Short), With(MCPlain, Short), With(MCPlain, Short)>>,
     <<With(MCPlain, <<97>>), With(MCPlain, <<97, 98>>)>>,
     <<With(MCPlain, <<97, 98>>), With(MCPlain, <<97>>)>>,
     <<With(<<97>>, <<107, 97>>)>>,
     <<With(<<97, 107>>, <<97>>)>>,
     <<With(<<97>>, <<1>>), With(<<97, 107>>, <<2>>)>>,
     <<With(<<97>>, <<1, 0, 97, 107, 0, 2>>)>>,
     <<With(MCPlain, <<97, 97, 97, 97, 97>>)>>,
     <<With(<<116, 104>>, Accents)>>,
     <<With(MCPlain, Euro)>>}
=============================================================================
