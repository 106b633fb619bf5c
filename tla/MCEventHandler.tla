--------------------------- MODULE MCEventHandler ---------------------------
(***************************************************************************)
(* Small instances of EventHandler: the events of each run, by name.       *)
(***************************************************************************)
EXTENDS EventHandler

Ev(id, pk, kind, at, tags) ==
  [id |-> id, pubkey |-> pk, kind |-> kind, created_at |-> at, tags |-> tags,
   valid |-> TRUE, bad |-> 0]
Broken(e, n) == [e EXCEPT !.bad = n]
Forged(e)    == [e EXCEPT !.valid = FALSE]

\* Two authors, and a third key that only reports.
MCPubkeys   == {"ana", "bob", "cid"}
MCWhitelist == {"ana"}
MCNamed     == {"ana"}
MCMembers   == [g \in {"dev"} |-> {"ana", "bob"}]
MCPlain     == {"x", "y", "dev", "wss"}
MCValues    == MCPlain \cup MCPubkeys \cup {"empty", "relay", "group-ru"} \cup
               {"note", "draft1", "draft2", "other", "chain", "profile", "list"}

\* Notes, profiles, deletions.
Note     == Ev("note", "ana", 1, 1, << <<"t", "x">> >>)

Profile  == Ev("profile", "bob", 0, 1, <<>>)
RelayLst == Broken(Ev("list", "ana", 10002, 2, << <<"r", "wss">>, <<"t", "x">> >>), 2)
Chat     == Ev("chat", "cid", 39003, 1, << <<"h", "dev">> >>)
Manage   == Ev("manage", "bob", 39000, 1, << <<"h", "dev">> >>)
Unsay    == Ev("unsay", "ana", 5, 2, << <<"e", "note">>, <<"e", "draft1">> >>)
UnsayBob == Ev("unsaybob", "bob", 5, 2, << <<"e", "note">>, <<"e", "profile">> >>)
\* Deletions that raise: at the second e tag, and at the insertion of their row.
UnsayBad == Broken(Ev("unsaybad", "ana", 5, 3, << <<"e", "note">>, <<"e", "other">> >>), 2)
UnsayRow == Broken(Ev("unsayrow", "ana", 5, 3, << <<"e", "draft2">> >>), RowItself)

\* Versions of addressable events.
Draft1   == Ev("draft1", "ana", 30023, 1, << <<"d", "x">>, <<"t", "dev">> >>)
Draft2   == Ev("draft2", "ana", 30023, 2, << <<"d", "x">> >>)
Draft3   == Broken(Ev("draft3", "ana", 30023, 3, << <<"d", "x">>, <<"e", "y">> >>), 2)
Ru1      == Ev("ru1", "ana", 30023, 1, << <<"d", "group-ru">> >>)
Ru2      == Ev("ru2", "ana", 30023, 2, << <<"d", "group-ru">> >>)
Pay1     == Ev("pay1", "ana", 30000, 1, << <<"d", "x">>, <<"p", "bob">> >>)
Pay2     == Ev("pay2", "ana", 30000, 2, << <<"d", "x">>, <<"p", "bob">> >>)
Balance  == Ev("balance", "ana", 30001, 1, <<>>)

\* Moderation.
ReportA  == Forged(Ev("reportA", "ana", 1984, 1, << <<"p", "bob">> >>))
ReportC  == Ev("reportC", "cid", 1984, 1, << <<"p", "bob">> >>)
ToAna    == Ev("toana", "cid", 22222, 1, << <<"delegation", "ana">> >>)

Nobody   == {}
JustNote == {Note}
JustBob  == {"bob"}
Posted    == {ReportC}

Store     == {Note, UnsayBob, Unsay, Draft1, Draft2, Draft3, Ru1, Ru2,
              UnsayBad, UnsayRow}
Mixed     == {ReportA, ReportC, RelayLst, Pay1, Balance, Chat, Manage, ToAna}
AllMixed  == Mixed \cup Posted

==============================================================================
