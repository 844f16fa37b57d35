--------------------------- MODULE TaskListProofs ---------------------------
(***************************************************************************)
(* The task list stays a doubly linked list through every sequence of      *)
(* task_new, task_free and task_switch, for any number of tasks and any    *)
(* reuse of their memory, as long as the first of several tasks is never   *)
(* freed.  The inductive invariant adds to the links that no task occurs   *)
(* twice.                                                                  *)
(***************************************************************************)
EXTENDS TaskList, TLAPS

(* No task occurs twice in the list.                                       *)
Distinct == \A j, k \in 1 .. Len(order) : j # k => order[j] # order[k]

(* The inductive invariant.                                                *)
TInv == Shape /\ Distinct /\ ForwardChain /\ BackwardChain /\ CurrentExists

(* What the invariant says of the places of the list.                      *)
LEMMA Places ==
  ASSUME TInv
  PROVE  /\ Len(order) \in Nat /\ \A k \in 1 .. Len(order) : order[k] \in Tasks
         /\ order # << >> <=> Len(order) > 0
         /\ \A k \in 1 .. Len(order) : order[k] # NULL
         /\ task_list_head = NULL <=> order = << >>
<1>1. order \in Seq(Tasks)
  BY DEF TInv, Shape
<1>2. Len(order) \in Nat /\ \A k \in 1 .. Len(order) : order[k] \in Tasks
  BY <1>1
<1>3. order # << >> <=> Len(order) > 0
  BY <1>1
<1>4. order # << >> => task_list_head = order[1] /\ order[1] \in Tasks
  BY <1>2, <1>3 DEF TInv, ForwardChain
<1>5. QED
  BY <1>2, <1>3, <1>4, TaskAssumption DEF TInv, ForwardChain

(* The list grows at its end.                                              *)
LEMMA Grown ==
  ASSUME TInv, NEW task \in Tasks, task \notin Live, order' = Append(order, task)
  PROVE  /\ order' \in Seq(Tasks) /\ Len(order') = Len(order) + 1
         /\ \A k \in 1 .. Len(order) : order'[k] = order[k] /\ order[k] # task
         /\ order'[Len(order) + 1] = task
         /\ Distinct' /\ Live' = Live \cup {task} /\ order' # << >>
<1>1. order \in Seq(Tasks) /\ Len(order) \in Nat
  BY DEF TInv, Shape
<1>2. /\ order' \in Seq(Tasks) /\ Len(order') = Len(order) + 1
      /\ \A k \in 1 .. Len(order) : order'[k] = order[k]
      /\ order'[Len(order) + 1] = task
  BY <1>1
<1>3. \A k \in 1 .. Len(order) : order[k] # task
  BY DEF Live
<1>4. \A k \in 1 .. Len(order') : k \in 1 .. Len(order) \/ k = Len(order) + 1
  BY <1>1, <1>2
<1>5. \A k \in 1 .. Len(order) : k \in 1 .. Len(order') /\ Len(order) + 1 \in 1 .. Len(order')
  BY <1>1, <1>2
<1>6. Distinct'
  <2> SUFFICES ASSUME NEW j \in 1 .. Len(order'), NEW k \in 1 .. Len(order'), j # k
               PROVE  order'[j] # order'[k]
    BY DEF Distinct
  <2>1. CASE j \in 1 .. Len(order) /\ k \in 1 .. Len(order)
    BY <2>1, <1>2 DEF TInv, Distinct
  <2>2. CASE j = Len(order) + 1 /\ k \in 1 .. Len(order)
    BY <2>2, <1>2, <1>3
  <2>3. CASE k = Len(order) + 1 /\ j \in 1 .. Len(order)
    BY <2>3, <1>2, <1>3
  <2>4. QED
    BY <1>4, <2>1, <2>2, <2>3
<1>7. Live' = Live \cup {task}
  <2>1. Live' = {order'[k] : k \in 1 .. Len(order')}
    BY DEF Live
  <2>2. \A x \in Live' : x \in Live \/ x = task
    BY <2>1, <1>2, <1>4 DEF Live
  <2>3. Len(order) + 1 \in 1 .. Len(order')
    BY <1>1, <1>2
  <2>4. task \in Live'
    BY <2>1, <2>3, <1>2
  <2>5. \A x \in Live : x \in Live'
    BY <2>1, <1>2, <1>5 DEF Live
  <2>6. QED
    BY <2>2, <2>4, <2>5
<1>8. order' # << >>
  BY <1>1, <1>2
<1>9. QED
  BY <1>2, <1>3, <1>6, <1>7, <1>8

(* task_new of the first task.                                             *)
LEMMA FirstInv ==
  ASSUME TInv, NEW task \in Tasks, task_new_first(task)
  PROVE  TInv'
<1>1. order = << >> /\ Len(order) = 0
  BY Places DEF task_new_first
<1>2. /\ order' \in Seq(Tasks) /\ Len(order') = 1 /\ order'[1] = task
      /\ Distinct' /\ Live' = Live \cup {task} /\ order' # << >>
  BY <1>1, Grown DEF task_new_first
<1>3. Shape'
  BY <1>2 DEF TInv, Shape, task_new_first, Set, Pointers, Memory
<1>4. next' \in [Tasks -> Memory] /\ next'[task] = NULL /\ prev'[task] = NULL
  BY <1>3 DEF TInv, Shape, task_new_first, Set
<1>5. ForwardChain'
  BY <1>2, <1>4 DEF ForwardChain, task_new_first
<1>6. BackwardChain'
  BY <1>2, <1>4 DEF BackwardChain, task_new_first
<1>7. CurrentExists'
  BY <1>2 DEF CurrentExists, task_new_first
<1>8. QED
  BY <1>2, <1>3, <1>5, <1>6, <1>7 DEF TInv

(* task_new behind the tail.                                               *)
LEMMA NewInv ==
  ASSUME TInv, NEW task \in Tasks, task_new(task)
  PROVE  TInv'
<1> DEFINE n == Len(order)
<1>1. order # << >> /\ n \in Nat /\ n > 0 /\ \A k \in 1 .. n : order[k] \in Tasks
  BY Places DEF task_new
<1>2. /\ order' \in Seq(Tasks) /\ Len(order') = n + 1
      /\ \A k \in 1 .. n : order'[k] = order[k] /\ order[k] # task
      /\ order'[n + 1] = task
      /\ Distinct' /\ Live' = Live \cup {task} /\ order' # << >>
  BY Grown DEF task_new
<1>3. task_list_tail = order[n] /\ task_list_head = order[1] /\ n \in 1 .. n /\ 1 \in 1 .. n
  BY <1>1 DEF TInv, ForwardChain
<1>4. /\ next \in [Tasks -> Memory] /\ prev \in [Tasks -> Memory]
      /\ order[n] \in Tasks /\ order[n] # task
  BY <1>1, <1>2, <1>3 DEF TInv, Shape
<1>5. /\ next' = [[next EXCEPT ![task] = NULL] EXCEPT ![order[n]] = task]
      /\ prev' = [prev EXCEPT ![task] = order[n]]
      /\ task_list_tail' = task /\ task_list_head' = order[1]
      /\ current_task' = current_task
  BY <1>3 DEF task_new, Set
<1>6. Shape'
  <2>1. next' \in [Tasks -> Memory] /\ prev' \in [Tasks -> Memory]
    BY <1>4, <1>5 DEF Pointers, Memory
  <2>2. {task_list_head', task_list_tail', current_task'} \subseteq Pointers
    BY <1>1, <1>3, <1>5 DEF TInv, Shape, Pointers, Memory
  <2>3. QED
    BY <1>2, <2>1, <2>2 DEF Shape
<1>7. \A k \in 1 .. n - 1 : next[order[k]] = order[k + 1] /\ prev[order[k + 1]] = order[k]
  BY DEF TInv, ForwardChain, BackwardChain
<1>8. \A k \in 1 .. n - 1 : k \in 1 .. n /\ k + 1 \in 1 .. n /\ k # n
  BY <1>1
<1>9. \A k \in 1 .. n - 1 : order[k] # order[n] /\ order[k] \in Tasks /\ order[k] # task
  BY <1>1, <1>2, <1>3, <1>8 DEF TInv, Distinct
<1>10. ASSUME NEW k \in 1 .. n
       PROVE  next'[order'[k]] = order'[k + 1] /\ prev'[order'[k + 1]] = order'[k]
  <2>1. CASE k \in 1 .. n - 1
    <3>1. /\ order'[k] = order[k] /\ order'[k + 1] = order[k + 1]
          /\ order[k + 1] \in Tasks /\ order[k + 1] # task
      BY <2>1, <1>1, <1>2, <1>8
    <3>2. next'[order[k]] = next[order[k]] /\ prev'[order[k + 1]] = prev[order[k + 1]]
      BY <2>1, <3>1, <1>4, <1>5, <1>9
    <3>3. QED
      BY <2>1, <3>1, <3>2, <1>7
  <2>2. CASE k = n
    BY <2>2, <1>2, <1>3, <1>4, <1>5
  <2>3. QED
    BY <2>1, <2>2, <1>1
<1>11. next'[task] = NULL
  BY <1>4, <1>5
<1>12. prev'[order'[1]] = NULL
  BY <1>1, <1>2, <1>3, <1>4, <1>5 DEF TInv, BackwardChain
<1>13. (n + 1) - 1 = n
  BY <1>1
<1>14. ForwardChain'
  BY <1>2, <1>3, <1>5, <1>10, <1>11, <1>13 DEF ForwardChain
<1>15. BackwardChain'
  BY <1>2, <1>10, <1>12, <1>13 DEF BackwardChain
<1>16. CurrentExists'
  BY <1>1, <1>2, <1>5 DEF TInv, CurrentExists
<1>17. QED
  BY <1>2, <1>6, <1>14, <1>15, <1>16 DEF TInv

(* The list without its k-th task.                                         *)
LEMMA Shrunk ==
  ASSUME TInv, NEW k \in 1 .. Len(order), order' = Without(k)
  PROVE  /\ order' \in Seq(Tasks) /\ Len(order') = Len(order) - 1
         /\ \A j \in 1 .. Len(order) - 1 :
              order'[j] = IF j < k THEN order[j] ELSE order[j + 1]
         /\ Distinct'
         /\ Live \ {order[k]} \subseteq Live'
<1> DEFINE n == Len(order)
<1>1. n \in Nat /\ n - 1 \in Nat /\ n > 0 /\ \A j \in 1 .. n : order[j] \in Tasks
  BY Places
<1>2. \A j \in 1 .. n - 1 : j \in 1 .. n /\ j + 1 \in 1 .. n
  BY <1>1
<1>3. order' \in [1 .. n - 1 -> Tasks]
  BY <1>1, <1>2 DEF Without
<1>4. order' \in Seq(Tasks) /\ Len(order') = n - 1
  BY <1>1, <1>3
<1>5. \A j \in 1 .. n - 1 : order'[j] = IF j < k THEN order[j] ELSE order[j + 1]
  BY DEF Without
<1>6. Distinct'
  <2> SUFFICES ASSUME NEW i \in 1 .. n - 1, NEW j \in 1 .. n - 1, i # j
               PROVE  order'[i] # order'[j]
    BY <1>4 DEF Distinct
  <2> DEFINE a == IF i < k THEN i ELSE i + 1
             b == IF j < k THEN j ELSE j + 1
  <2>1. a \in 1 .. n /\ b \in 1 .. n /\ a # b
    BY <1>1
  <2>2. order'[i] = order[a] /\ order'[j] = order[b]
    BY <1>5
  <2> HIDE DEF a, b
  <2>3. QED
    BY <2>1, <2>2 DEF TInv, Distinct
<1>7. ASSUME NEW x \in Live, x # order[k]
      PROVE  x \in Live'
  <2>1. PICK j \in 1 .. n : x = order[j]
    BY DEF Live
  <2>2. j # k
    BY <2>1, <1>7
  <2> DEFINE a == IF j < k THEN j ELSE j - 1
  <2>3. a \in 1 .. n - 1 /\ (a < k => a = j) /\ (~(a < k) => a + 1 = j)
    BY <1>1, <2>2
  <2> HIDE DEF a
  <2>4. order'[a] = x
    BY <2>1, <2>3, <1>5
  <2>5. QED
    BY <2>3, <2>4, <1>4 DEF Live
<1>8. QED
  BY <1>4, <1>5, <1>6, <1>7

(* task_free of the only task empties the list.                            *)
LEMMA FreeOnlyInv ==
  ASSUME TInv, Len(order) = 1, task_list_remove(order[1]), order' = Without(1)
  PROVE  TInv'
<1>1. order[1] \in Tasks /\ order # << >> /\ Len(order) = 1 /\ 1 \in 1 .. Len(order)
  BY Places
<1>2. order' \in Seq(Tasks) /\ Len(order') = 0 /\ Distinct'
  BY <1>1, Shrunk
<1>3. order' = << >>
  BY <1>2
<1>4. /\ task_list_head = order[1] /\ task_list_tail = order[1]
      /\ next[order[1]] = NULL /\ prev[order[1]] = NULL
  BY <1>1 DEF TInv, ForwardChain, BackwardChain
<1>5. Live = {order[1]}
  BY <1>1 DEF Live
<1>6. current_task = order[1]
  BY <1>1, <1>5 DEF TInv, CurrentExists
<1>7. /\ next' = next /\ prev' = prev /\ task_list_head' = NULL /\ task_list_tail' = NULL
      /\ current_task' = NULL
  BY <1>4, <1>6 DEF task_list_remove, task_get_next
<1>8. QED
  BY <1>2, <1>3, <1>7 DEF TInv, Shape, ForwardChain, BackwardChain, CurrentExists, Pointers, Memory

(* task_free of a task with one before it mends the links around it.       *)
LEMMA FreeLaterInv ==
  ASSUME TInv, NEW k \in 2 .. Len(order), task_list_remove(order[k]), order' = Without(k)
  PROVE  TInv'
<1> DEFINE n == Len(order)
           task == order[k]
           before == order[k - 1]
<1>1. /\ n \in Nat /\ n > 1 /\ k \in 1 .. n /\ k - 1 \in 1 .. n - 1 /\ k - 1 \in 1 .. n
      /\ (k - 1) + 1 = k /\ order # << >>
      /\ \A j \in 1 .. n : order[j] \in Tasks /\ order[j] # NULL
  BY Places
<1>2. /\ order' \in Seq(Tasks) /\ Len(order') = n - 1 /\ Distinct'
      /\ \A j \in 1 .. n - 1 : order'[j] = IF j < k THEN order[j] ELSE order[j + 1]
      /\ Live \ {task} \subseteq Live'
  BY <1>1, Shrunk
<1>3. /\ task_list_head = order[1] /\ task_list_tail = order[n]
      /\ next[order[n]] = NULL /\ prev[order[1]] = NULL
      /\ \A j \in 1 .. n - 1 : next[order[j]] = order[j + 1] /\ prev[order[j + 1]] = order[j]
  BY <1>1 DEF TInv, ForwardChain, BackwardChain
<1>4. \A i, j \in 1 .. n : i # j => order[i] # order[j]
  BY DEF TInv, Distinct
<1>5. /\ next \in [Tasks -> Memory] /\ prev \in [Tasks -> Memory]
      /\ task \in Tasks /\ before \in Tasks /\ before # NULL /\ before # task
      /\ prev[task] = before /\ task # order[1] /\ 1 \in 1 .. n /\ n \in 1 .. n
  BY <1>1, <1>3, <1>4 DEF TInv, Shape
<1>6. /\ next' = [next EXCEPT ![before] = next[task]]
      /\ next'[task] = next[task] /\ task_list_head' = task_list_head
  BY <1>3, <1>5 DEF task_list_remove, Set
<1>7. order' # << >> /\ n - 1 \in 1 .. n - 1 /\ 1 \in 1 .. n - 1
  BY <1>1, <1>2
<1>8. order'[1] = order[1]
  BY <1>1, <1>2, <1>7
<1>9. task_list_head' = order'[1] /\ order'[1] \in Live'
  BY <1>2, <1>3, <1>6, <1>7, <1>8 DEF Live
<1>10. CASE k = n
  <2>1. next[task] = NULL
    BY <1>3, <1>10
  <2>2. prev' = prev /\ task_list_tail' = before
    BY <1>3, <1>5, <1>6, <1>10, <2>1 DEF task_list_remove
  <2>3. current_task' = IF task = current_task THEN task_list_head ELSE current_task
    BY <1>6, <2>1 DEF task_list_remove, task_get_next
  <2>4. \A j \in 1 .. n - 1 : order'[j] = order[j] /\ j \in 1 .. n
    BY <1>1, <1>2, <1>10
  <2>5. task_list_tail' = order'[n - 1] /\ next'[task_list_tail'] = NULL
    BY <1>1, <1>5, <1>6, <1>7, <1>10, <2>1, <2>2, <2>4
  <2>6. ASSUME NEW j \in 1 .. (n - 1) - 1
        PROVE  next'[order'[j]] = order'[j + 1] /\ prev'[order'[j + 1]] = order'[j]
    <3>1. /\ j \in 1 .. n - 1 /\ j + 1 \in 1 .. n - 1 /\ j # k - 1 /\ j \in 1 .. n
      <4>1. j \in Nat /\ 1 <= j /\ j <= n - 2 /\ n \in Nat
        BY <1>1
      <4>2. j # n - 1
        BY <4>1
      <4>3. QED
        BY <4>1, <4>2, <1>10
    <3>2. order[j] # before /\ order[j] \in Tasks
      BY <3>1, <1>1, <1>4
    <3>3. next'[order[j]] = next[order[j]]
      BY <3>2, <1>5, <1>6
    <3>4. QED
      BY <3>1, <3>3, <2>2, <2>4, <1>3
  <2>7. ForwardChain'
    BY <1>2, <1>7, <1>9, <2>5, <2>6 DEF ForwardChain
  <2>8. BackwardChain'
    BY <1>2, <1>3, <1>7, <1>8, <2>2, <2>6 DEF BackwardChain
  <2>9. CurrentExists'
    BY <1>1, <1>2, <1>6, <1>7, <1>9, <2>3 DEF TInv, CurrentExists
  <2>10. Shape'
    <3>1. next' \in [Tasks -> Memory]
      BY <1>5, <1>6, <2>1 DEF Pointers, Memory
    <3>2. current_task' \in Pointers
      BY <2>3 DEF TInv, Shape
    <3>3. prev' \in [Tasks -> Memory]
      BY <1>5, <2>2
    <3>4. task_list_head' \in Pointers /\ task_list_tail' \in Pointers
      BY <1>5, <1>6, <2>2 DEF TInv, Shape, Pointers, Memory
    <3>5. QED
      BY <3>1, <3>2, <3>3, <3>4, <1>2 DEF Shape
  <2>11. QED
    BY <1>2, <2>7, <2>8, <2>9, <2>10 DEF TInv
<1>11. CASE k < n
  <2> DEFINE after == order[k + 1]
  <2>1. /\ k + 1 \in 1 .. n /\ k \in 1 .. n - 1 /\ after \in Tasks /\ after # NULL
        /\ next[task] = after /\ after # task /\ after # before
        /\ task # order[n] /\ after # order[1]
    <3>1. k + 1 \in 1 .. n /\ k \in 1 .. n - 1 /\ k + 1 # k /\ k + 1 # k - 1 /\ k # n /\ k + 1 # 1
      BY <1>1, <1>11
    <3>2. QED
      BY <3>1, <1>1, <1>3, <1>4, <1>5
  <2>2. /\ prev' = [prev EXCEPT ![after] = before] /\ task_list_tail' = task_list_tail
    BY <1>3, <1>5, <1>6, <2>1 DEF task_list_remove, Set
  <2>3. current_task' = IF task = current_task THEN after ELSE current_task
    BY <1>6, <2>1 DEF task_list_remove, task_get_next
  <2>4. task_list_tail' = order'[n - 1] /\ next'[task_list_tail'] = NULL
    <3>1. ~(n - 1 < k) /\ (n - 1) + 1 = n /\ n # k - 1
      BY <1>1, <1>11
    <3>2. order'[n - 1] = order[n]
      BY <3>1, <1>2, <1>7
    <3>3. order[n] # before /\ order[n] \in Tasks
      BY <3>1, <1>1, <1>4, <1>5
    <3>4. QED
      BY <3>2, <3>3, <2>2, <1>3, <1>5, <1>6
  <2>5. prev'[order'[1]] = NULL
    BY <1>1, <1>3, <1>5, <1>8, <2>1, <2>2
  <2>6. ASSUME NEW j \in 1 .. (n - 1) - 1
        PROVE  next'[order'[j]] = order'[j + 1] /\ prev'[order'[j + 1]] = order'[j]
    <3>1. j \in 1 .. n - 1 /\ j + 1 \in 1 .. n - 1 /\ j \in 1 .. n /\ (j + 1) + 1 \in 1 .. n
          /\ j + 1 \in 1 .. n
      BY <1>1
    <3>2. CASE j + 1 < k
      <4>1. order'[j] = order[j] /\ order'[j + 1] = order[j + 1]
        BY <3>1, <3>2, <1>1, <1>2
      <4>2. j # k - 1 /\ j + 1 # k + 1
        BY <3>2, <1>1
      <4>3. /\ order[j] # before /\ order[j] \in Tasks
            /\ order[j + 1] # after /\ order[j + 1] \in Tasks
        BY <3>1, <4>2, <1>1, <1>4, <2>1
      <4>4. QED
        BY <3>1, <4>1, <4>3, <1>3, <1>5, <1>6, <2>2
    <3>3. CASE j + 1 = k
      <4>1. order'[j] = before /\ order'[j + 1] = after
        BY <3>1, <3>3, <1>1, <1>2
      <4>2. QED
        BY <4>1, <1>5, <1>6, <2>1, <2>2
    <3>4. CASE j + 1 > k
      <4>1. order'[j] = order[j + 1] /\ order'[j + 1] = order[(j + 1) + 1]
        BY <3>1, <3>4, <1>1, <1>2
      <4>2. j + 1 # k - 1 /\ (j + 1) + 1 # k + 1
        BY <3>4, <1>1
      <4>3. /\ order[j + 1] # before /\ order[j + 1] \in Tasks
            /\ order[(j + 1) + 1] # after /\ order[(j + 1) + 1] \in Tasks
        BY <3>1, <4>2, <1>1, <1>4, <2>1
      <4>4. QED
        BY <3>1, <4>1, <4>3, <1>3, <1>5, <1>6, <2>2
    <3>5. QED
      BY <3>1, <3>2, <3>3, <3>4, <1>1
  <2>7. ForwardChain'
    BY <1>2, <1>7, <1>9, <2>4, <2>6 DEF ForwardChain
  <2>8. BackwardChain'
    BY <1>2, <1>7, <2>5, <2>6 DEF BackwardChain
  <2>9. after \in Live'
    <3>1. after \in Live
      BY <2>1 DEF Live
    <3>2. QED
      BY <3>1, <1>2, <2>1
  <2>10. CurrentExists'
    BY <1>1, <1>2, <1>7, <2>3, <2>9 DEF TInv, CurrentExists
  <2>11. Shape'
    <3>1. next' \in [Tasks -> Memory] /\ prev' \in [Tasks -> Memory]
      BY <1>5, <1>6, <2>1, <2>2 DEF Pointers, Memory
    <3>2. current_task' \in Pointers
      BY <2>1, <2>3 DEF TInv, Shape, Pointers, Memory
    <3>3. QED
      BY <3>1, <3>2, <1>2, <1>6, <2>2 DEF TInv, Shape
  <2>12. QED
    BY <1>2, <2>7, <2>8, <2>10, <2>11 DEF TInv
<1>12. QED
  BY <1>1, <1>10, <1>11

(* Every step keeps the list.                                              *)
LEMMA NextTInv ==
  ASSUME ~HeadFreed, TInv, [Next]_vars
  PROVE  TInv'
<1>1. ASSUME NEW k \in 1 .. Len(order), task_free(k)
      PROVE  TInv'
  <2>1. task_list_remove(order[k]) /\ order' = Without(k) /\ (Len(order) = 1 \/ k > 1)
    BY <1>1 DEF task_free
  <2>2. Len(order) \in Nat
    BY Places
  <2>3. CASE Len(order) = 1
    <3>1. k = 1
      BY <2>3
    <3>2. QED
      BY <2>1, <2>3, <3>1, FreeOnlyInv
  <2>4. CASE k > 1
    <3>1. k \in 2 .. Len(order)
      BY <2>2, <2>4
    <3>2. QED
      BY <2>1, <3>1, FreeLaterInv
  <2>5. QED
    BY <2>1, <2>3, <2>4
<1>2. ASSUME NEW task \in Live, task_switch(task)
      PROVE  TInv'
  <2>1. task \in Tasks /\ order # << >>
    BY Places DEF Live
  <2>2. QED
    BY <1>2, <2>1 DEF TInv, Shape, Distinct, ForwardChain, BackwardChain, CurrentExists,
                      Live, Pointers, Memory, task_switch
<1>3. CASE UNCHANGED vars
  BY <1>3 DEF TInv, Shape, Distinct, ForwardChain, BackwardChain, CurrentExists,
              Live, vars
<1>4. QED
  BY <1>1, <1>2, <1>3, FirstInv, NewInv DEF Next

(* The invariant holds of the empty list of a kernel that has just booted. *)
LEMMA InitTInv == Init => TInv
<1> SUFFICES ASSUME Init PROVE TInv
  OBVIOUS
<1>1. order = << >> /\ Len(order) = 0 /\ order \in Seq(Tasks)
  BY DEF Init
<1>2. QED
  BY <1>1 DEF Init, TInv, Shape, Distinct, ForwardChain, BackwardChain, CurrentExists,
              Pointers, Memory

(* The links of every task that exists are written.                        *)
THEOREM LinksAreWritten ==
  ASSUME ~HeadFreed
  PROVE  Spec => []TypeOK
<1>1. TInv /\ [Next]_vars => TInv'
  BY NextTInv
<1>2. TInv => TypeOK
  <2> SUFFICES ASSUME TInv, NEW t \in Live
               PROVE  next[t] \in Pointers /\ prev[t] \in Pointers
    BY DEF TInv, TypeOK
  <2>1. Len(order) \in Nat /\ \A k \in 1 .. Len(order) : order[k] \in Pointers
    BY Places DEF Pointers
  <2>2. PICK k \in 1 .. Len(order) : t = order[k]
    BY DEF Live
  <2>3. order # << >> /\ NULL \in Pointers
    BY <2>2, Places DEF Pointers
  <2>4. next[t] \in Pointers
    <3>1. CASE k = Len(order)
      BY <2>2, <2>3, <3>1 DEF TInv, ForwardChain
    <3>2. CASE k # Len(order)
      <4>1. k \in 1 .. Len(order) - 1 /\ k + 1 \in 1 .. Len(order)
        BY <2>1, <3>2
      <4>2. QED
        BY <2>1, <2>2, <4>1 DEF TInv, ForwardChain
    <3>3. QED
      BY <3>1, <3>2
  <2>5. prev[t] \in Pointers
    <3>1. CASE k = 1
      BY <2>2, <2>3, <3>1 DEF TInv, BackwardChain
    <3>2. CASE k # 1
      <4>1. k - 1 \in 1 .. Len(order) - 1 /\ (k - 1) + 1 = k /\ k - 1 \in 1 .. Len(order)
        BY <2>1, <3>2
      <4>2. prev[order[(k - 1) + 1]] = order[k - 1]
        BY <4>1 DEF TInv, BackwardChain
      <4>3. QED
        BY <2>1, <2>2, <4>1, <4>2
    <3>3. QED
      BY <3>1, <3>2
  <2>6. QED
    BY <2>4, <2>5
<1>3. QED
  BY <1>1, <1>2, InitTInv, PTL DEF Spec

(* Every reachable state satisfies the inductive invariant.                *)
LEMMA TInvariance ==
  ASSUME ~HeadFreed
  PROVE  Spec => []TInv
<1>1. TInv /\ [Next]_vars => TInv'
  BY NextTInv
<1>2. QED
  BY <1>1, InitTInv, PTL DEF Spec

(* task_new, task_free and task_switch keep the list linked from head to   *)
(* tail, in the order the tasks were made, for any number of tasks and any *)
(* reuse of freed memory.                                                  *)
THEOREM ListStaysLinked ==
  ASSUME ~HeadFreed
  PROVE  Spec => []ForwardChain
BY TInvariance, PTL DEF TInv

(* The prev links, which task_list_remove mends separately from the next   *)
(* links, name the same list backwards.                                    *)
THEOREM ListStaysLinkedBack ==
  ASSUME ~HeadFreed
  PROVE  Spec => []BackwardChain
BY TInvariance, PTL DEF TInv

(* current_task never names a task that task_free freed.                   *)
THEOREM CurrentTaskIsLive ==
  ASSUME ~HeadFreed
  PROVE  Spec => []CurrentExists
BY TInvariance, PTL DEF TInv
=============================================================================
