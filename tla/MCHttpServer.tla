---------------------------- MODULE MCHttpServer ----------------------------
(***************************************************************************)
(* Instances of HttpServer.                                                *)
(***************************************************************************)
EXTENDS HttpServer

Get == [method |-> "GET", target |-> "root", version |-> 11, connection |-> "",
        host |-> TRUE, upgrade |-> "", expect |-> FALSE]

File == [Get EXCEPT !.target = "file"]

Upgrade == [Get EXCEPT !.upgrade = "websocket"]

(* Requests that meet every answer and every way a connection ends; and    *)
(* clients that say nothing, one of them on the worker of a third.         *)
MCPlans ==
  {<<<<Upgrade>>, <<>>, <<>>>>, <<<<File>>, <<>>, <<>>>>} \cup
  {<<q>> : q \in
     {<<Get, Upgrade>>,
      <<File, [File EXCEPT !.connection = "close"]>>,
      <<[Get EXCEPT !.method = "HEAD"], File>>,
      <<[Get EXCEPT !.version = 10, !.host = FALSE], Get>>,
      <<[Get EXCEPT !.version = 10, !.connection = "keep-alive"], File>>,
      <<[Get EXCEPT !.host = FALSE], [Get EXCEPT !.target = "missing"]>>,
      <<[Get EXCEPT !.expect = TRUE]>>,
      <<[Get EXCEPT !.expect = TRUE, !.upgrade = "websocket"]>>,
      <<[Get EXCEPT !.upgrade = "other"]>>,
      <<[File EXCEPT !.upgrade = "other"]>>,
      <<[Get EXCEPT !.upgrade = "h2"], [Get EXCEPT !.method = "OPTIONS"]>>,
      <<[Get EXCEPT !.method = "HEAD", !.upgrade = "websocket"]>>,
      <<File, [Get EXCEPT !.target = "none"]>>,
      <<Get, [Get EXCEPT !.method = "POST"]>>}}

(* Two clients that say nothing.                                           *)
MCSilent == {<<<<>>, <<>>>>}
=============================================================================
