----------------------------- MODULE MCChunking -----------------------------
(***************************************************************************)
(* Finite instances of Chunking for TLC.                                   *)
(***************************************************************************)
EXTENDS Chunking

Unit(is, page, text) == [is |-> is, page |-> page, text |-> text]
Short == <<"w">>
Long == <<"w", "w", "s", "w", "w", "w", "n", "w", "w", "w">>
Middle == <<"w", "w", "s", "w">>
Empty == <<"s">>

\* A gap longer than a block.
Gap == <<"w">> \o [k \in 1..18 |-> "s"] \o <<"w">>

\* Every text of up to ten symbols that begins and ends with a letter.
Texts == {t \in UNION {[1..n -> {"w", "n", "s"}] : n \in 1..10} : t[1] = "w" /\ t[Len(t)] = "w"}
Plain == {<<Unit("paragraph", 1, t)>> : t \in Texts \union {Gap}}

\* Three units on two pages.
Of(choices) ==
    { [u \in 1..3 |-> Unit(is[u][1], IF u <= turn THEN 1 ELSE 2, is[u][2])] :
        is \in [1..3 -> choices], turn \in 1..3 }

Headed == {<<"heading", Short>>, <<"paragraph", Short>>, <<"paragraph", Long>>}

\* Rows of two cells, of one, of one and a column without a name, of nothing,
\* and one too long with its header.
Rows == {<<"row", <<"w", "c", "w">> >>, <<"row", Short>>, <<"row", <<"c", "w">> >>,
         <<"row", Empty>>, <<"row", <<>> >>, <<"row", Long>>}

MCUploaded ==
    [text     |-> Plain,
     rtf      |-> Of({<<"paragraph", Long>>, <<"destination", Short>>}),
     pdf      |-> Of({<<"paragraph", Short>>, <<"paragraph", Long>>, <<"damaged", Short>>}),
     markdown |-> Of(Headed \union {<<"fenced", Short>>}),
     html     |-> Of(Headed \union {<<"loose", Long>>, <<"unread", Short>>}),
     docx     |-> Of(Headed \union {<<"row", Short>>, <<"unread", Short>>}),
     odt      |-> Of(Headed),
     pptx     |-> Of(Headed \union {<<"heading", Empty>>, <<"unread", Short>>}),
     epub     |-> Of(Headed \union {<<"title", Short>>, <<"title", Empty>>, <<"unread", Short>>}),
     xlsx     |-> Of(Rows),
     csv      |-> Of(Rows),
     code     |-> Of({<<"definition", Short>>, <<"line", Short>>, <<"line", Middle>>, <<"line", Long>>}),
     image    |-> {f \in Of({<<"line", Short>>, <<"faint", Short>>}) : f[3].page = 1}]
=============================================================================
