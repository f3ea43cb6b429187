----------------------------- MODULE MCReporter -----------------------------
(***************************************************************************)
(* Two workers, one or two storing threads, two reports on two hosts,      *)
(* and all configurations of up to three lines.                            *)
(***************************************************************************)
EXTENDS Reporter, TLC

MCNumber == ("one" :> 1) @@ ("zero" :> 0) @@ ("minus one" :> -1) @@ ("junk" :> 0)

MCLines == {Section("reporter"), Section("mysql"), OtherLine,
            Comment("db_thread_cnt", "junk")}
             \cup {Entry("db_thread_cnt", v) : v \in Texts}
=============================================================================
