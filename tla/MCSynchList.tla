---------------------------- MODULE MCSynchList ----------------------------
(* Programs for SynchList: the thread self test and, next to it, as many   *)
(* removals as items on a third list.                                      *)
EXTENDS SynchList

Threads == {"main", "forked", "pong", "helper", "a1", "r1", "r2"}
Helpers == {"forked", "pong", "helper"}
Programs ==
    [t \in Threads |->
       CASE t = "main" -> ThreadSelfTest
         [] t = "forked" -> SimpleThread
         [] t = "pong" -> SelfTestSemaphoreHelper
         [] t = "helper" -> SelfTestHelper
         [] t = "a1" -> << Do("append", "box"), Do("append", "box"), Do("apply", "box") >>
         [] OTHER -> << Do("remove", "box") >>]
=============================================================================
