------------------------------- MODULE MCSite -------------------------------
(* A data directory with datasets on three levels, one of them an NcML      *)
(* document, and with everything the walk has to leave out, and another     *)
(* directory; they are given by default, as an argument, by a configuration *)
(* file, or a single file is given instead.  "a b" is written "a%20b" in a  *)
(* request, and "ø" begins with a character of two bytes.                   *)
EXTENDS Site, TLC

D == <<"data">>
F(path) == [path |-> path, opens |-> TRUE]
NoDataset(path) == [path |-> path, opens |-> FALSE]

PlainDisk ==
    { F(<<D, <<"a", "nc">>>>), F(<<D, <<"b", "ncml">>>>),
      F(<<D, <<"sub">>, <<"a", "nc">>>>),
      F(<<D, <<"sub">>, <<"deep">>, <<"c", "h5">>>>),
      F(<<D, <<"zoo">>, <<"a", "nc">>>>),
      F(<<D, <<"a", "nc", "txt">>>>), F(<<D, <<"", "hid", "nc">>>>),
      F(<<D, <<"", "git">>, <<"x", "nc">>>>), F(<<D, <<"?">>, <<"x", "nc">>>>),
      F(<<D, <<"", "nc">>>>), NoDataset(<<D, <<"broken", "nc">>>>),
      NoDataset(<<D, <<"zoo">>, <<"dir", "nc">>>>),
      F(<<<<"more">>, <<"y", "nc4">>>>),
      F(<<<<"more">>, <<"far">>, <<"ø">>, <<"b", "nc">>>>) }

SpacedDisk == { F(<<D, <<"a", "nc">>>>), F(<<D, <<"a b", "nc">>>>) }

MCParts == STRING

MCUndecodable == { <<"?">> }
MCWide == { <<"ø">> }
MCEscaped == (<<"a b", "nc">> :> <<"a%20b", "nc">>) @@ (<<"ø">> :> <<"%C3%B8">>)

MCAlphabet == << <<"">>, <<"a b", "nc">>, <<"a", "nc">>, <<"b", "nc">>, <<"b", "ncml">>,
                 <<"c", "h5">>, <<"deep">>, <<"far">>, <<"sub">>, <<"y", "nc4">>, <<"zoo">>, <<"ø">> >>

Args(free, config) == [free |-> free, config |-> config]
WithoutASlash == Args(<< <<D>> >>, << << <<"more">> >> >>)
ByDefault == Args(<<>>, <<>>)
ByFile == Args(<<>>, << << <<"more">>, Empty >>, <<D>> >>)
WithSlash == Args(<< <<D, Empty>> >>, <<>>)
OneFile == Args(<< <<D, <<"b", "ncml">>>> >>, <<>>)

MCCommandLines == {ByDefault, WithoutASlash, ByFile, OneFile}
OnlyWithSlash == {WithSlash}

Ask(path, json, query) == [path |-> DataPath \o path, json |-> json, query |-> query]
Url(name, query) == Ask(<<name>>, FALSE, query)

\* The list, the data of a dataset with and without a fitting constraint, the
\* suffixes of a dataset without name, and paths that lead nowhere.
MCTyped ==
    << Ask(<<Empty>>, TRUE, "none"), Ask(<<>>, FALSE, "none"),
       Url(<<"a", "nc", "dods">>, "fits"), Url(<<"a", "nc", "dods">>, "misfit"),
       Url(<<"a", "nc", "dds">>, "misfit"), Url(<<"b", "ncml", "das">>, "none"),
       Url(<<"a", "nc">>, "none"), Url(<<"a", "nc", "txt">>, "none"),
       Url(<<"", "das">>, "none"), Url(<<"", "dods">>, "misfit"),
       Ask(<<<<"sub">>, <<"a", "nc", "dods">>>>, FALSE, "none"),
       Ask(<<<<"su">>, Empty>>, FALSE, "none"), Ask(<<<<"zoo">>, Empty>>, FALSE, "none"),
       Browse(<< <<"a", "nc", "das">> >>) >>

Nothing == <<>>

ASSUME Disk = PlainDisk => NothingEscaped
=============================================================================
