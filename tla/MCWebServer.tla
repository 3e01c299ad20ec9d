---------------------------- MODULE MCWebServer ----------------------------
(* A small instance of WebServer for TLC: a document root like that of     *)
(* homework1/data, and requests like those of homework1/testcase.          *)
EXTENDS WebServer

Tree == {<<"/", "index.html">>, <<"/", "hidden", "/", "sPeCI@1", "+", "Ur1.txt">>}
Directories == {<<>>, <<"/", "hidden">>}

Get(target) == [method |-> "GET", target |-> target]
TestCases ==
    { Get(<<"/", "?", "AAA=BBB">>),
      Get(<<"/", "hidden">>),
      Get(<<"/", "hidden", "/">>),
      Get(<<"/", "no-exist">>),
      Get(<<"/", "hidden", "%2F", "sPeCI@1", "%2B", "Ur1.txt">>),
      [method |-> "AAA", target |-> <<"/">>] }
============================================================================
