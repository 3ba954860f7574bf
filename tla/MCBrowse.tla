------------------------------ MODULE MCBrowse ------------------------------
(***************************************************************************)
(* Cards for Browse.  The root and /MUSIC hold files at the same index, and *)
(* both hold a directory SUB; /MUSIC/SUB/DEEP is too deep to enter.         *)
(***************************************************************************)
EXTENDS Browse, SequencesExt, TLC

Of(name, type) == [name |-> name, type |-> type, hidden |-> FALSE]
Hide(entry) == [entry EXCEPT !.hidden = TRUE]
Plugins(present) == SelectSeq(<<Of("WAVPLUGIN", "prg"), Of("KOAPLUGIN", "prg")>>,
                              LAMBDA e : e.name \in present)

Music == << >> :> <<Of("MUSIC", "dir"), Of("GAME", "prg"), Of("SUB", "dir")>>
         @@ <<"SUB">> :> <<Of("GAME", "prg")>>
         @@ <<"MUSIC">> :> <<Of("SONG", "wav"), Of("DEMO", "prg"), Of("SUB", "dir"),
                             Of("COVER", "koa")>>
         @@ <<"MUSIC", "SUB">> :> <<Of("TUNE", "wav"), Of("DEEP", "dir"), Of("SHOW", "prg")>>
         @@ <<"MUSIC", "SUB", "DEEP">> :> << >>

With(entries) ==
  [path \in DOMAIN Music \cup {PLUGINS} |->
     IF path = PLUGINS THEN entries
     ELSE IF path = << >> THEN Append(Music[path], Hide(Of("PLUGINS", "dir")))
     ELSE Music[path]]

Card(disk, reliable, picturesValid) ==
  [disk |-> disk, reliable |-> reliable, picturesValid |-> picturesValid]

Both == {"WAVPLUGIN", "KOAPLUGIN"}
HiddenPlugins == [i \in 1 .. 2 |-> Hide(Plugins(Both)[i])]

AllCards ==
  {Card(With(Plugins(Both)), reliable, valid) : reliable \in BOOLEAN, valid \in BOOLEAN}
    \cup {Card(With(HiddenPlugins), TRUE, TRUE), Card(With(Plugins({})), TRUE, TRUE),
          Card(Music, TRUE, TRUE)}
=============================================================================
